---- MODULE Spec2Model ----
(***************************************************************************)
(* A model of the ARM7TDMI core of memetendo-unsafe-boy-advance:           *)
(* src/src/arm7tdmi/mod.rs (exceptions, pipeline, reset, step),            *)
(* src/src/arm7tdmi/op.rs (shared ALU primitives, branch-and-exchange),    *)
(* src/src/arm7tdmi/thumb.rs (16-bit decoder) and src/src/bus.rs,          *)
(* src/src/rom.rs (the bus the core fetches from).                         *)
(*                                                                         *)
(* A u32 is held as the two's-complement reading of its 32 bits (what      *)
(* `x as i32` gives in the source), an integer in -2^31 .. 2^31-1, because *)
(* TLC's integers are 32 bits wide.  All word arithmetic goes through the  *)
(* two 16-bit halves of the word, so that wrapping is computed and never   *)
(* assumed.                                                                *)
(***************************************************************************)
EXTENDS Integers, Sequences, FiniteSets, TLC

VARIABLES run_state, r, cpsr, spsr, banks, pipeline_instrs,
          pending_exceptions, rom, panicked, last, dropped, ops, bios, video

vars == <<run_state, r, cpsr, spsr, banks, pipeline_instrs,
          pending_exceptions, rom, panicked, last, dropped, ops, bios, video>>

-----------------------------------------------------------------------------
(* Bounds of the model.                                                    *)

\* the number of operations (reset, step, raise_exception, mask clears) of a run
MaxOps == 7

\* the largest number of cycles of one call of VideoController::step
MaxCycles == 2

-----------------------------------------------------------------------------
(* 32-bit words.                                                           *)

HALF == 2^16

MinWord == -2147483647 - 1

\* the unsigned upper and lower 16 bits of a word
Hi(v) == (v \div HALF) % HALF

Lo(v) == v % HALF

\* the word whose unsigned halves are hi and lo
FromHalves(hi, lo) ==
    IF hi >= 32768 THEN (hi - HALF) * HALF + lo ELSE hi * HALF + lo

\* u32::wrapping_add
wrapping_add(a, b) ==
    LET lo == Lo(a) + Lo(b)
        hi == Hi(a) + Hi(b) + (lo \div HALF)
    IN  FromHalves(hi % HALF, lo % HALF)

\* i32::wrapping_neg (two's complement: invert and add one)
wrapping_neg(b) ==
    wrapping_add(FromHalves(HALF - 1 - Hi(b), HALF - 1 - Lo(b)), 1)

\* u32::wrapping_sub
wrapping_sub(a, b) == wrapping_add(a, wrapping_neg(b))

\* bit 31 (i32::is_negative)
is_negative(v) == v < 0

\* x & !1 and x & !0b11
ClearLow(v, n) == v - (v % n)

\* u32 shifted left / right (logical) by one bit
Shl1(v) == FromHalves((Hi(v) * 2 + Lo(v) \div 32768) % HALF, (Lo(v) * 2) % HALF)

Shr1(v) == FromHalves(Hi(v) \div 2, (Lo(v) \div 2) + (Hi(v) % 2) * 32768)

\* i32 shifted right by one bit (sign fill)
Sar1(v) == v \div 2

\* u32 << n, u32 >> n and i32 >> n for n in 0..31, on the halves of the word
Shl(v, n) ==
    IF n < 16
    THEN FromHalves((Hi(v) * 2^n + (Lo(v) * 2^n) \div HALF) % HALF, (Lo(v) * 2^n) % HALF)
    ELSE FromHalves((Lo(v) * 2^(n - 16)) % HALF, 0)

Shr(v, n) ==
    IF n < 16
    THEN FromHalves(Hi(v) \div 2^n, (Lo(v) \div 2^n) + (Hi(v) % 2^n) * 2^(16 - n))
    ELSE FromHalves(0, Hi(v) \div 2^(n - 16))

Sar(v, n) == IF n >= 31 THEN (IF v < 0 THEN -1 ELSE 0) ELSE v \div 2^n

\* u32::rotate_right by one bit
Ror1(v) ==
    FromHalves(Hi(v) \div 2 + (Lo(v) % 2) * 32768, Lo(v) \div 2 + (Hi(v) % 2) * 32768)

\* u32::rotate_right by n in 0..31: the bits shifted out come back in at the top
Ror(v, n) ==
    IF n = 0 THEN v
    ELSE FromHalves(Hi(Shr(v, n)) + Hi(Shl(v, 32 - n)),
                    Lo(Shr(v, n)) + Lo(Shl(v, 32 - n)))

\* u32::rotate_right: the amount counts modulo 32
rotate_right(v, n) == Ror(v, n % 32)

\* bitwise operations on n-bit naturals
RECURSIVE AndN(_, _, _)
AndN(a, b, n) ==
    IF n = 0 THEN 0 ELSE (a % 2) * (b % 2) + 2 * AndN(a \div 2, b \div 2, n - 1)

RECURSIVE XorN(_, _, _)
XorN(a, b, n) ==
    IF n = 0 THEN 0 ELSE ((a + b) % 2) + 2 * XorN(a \div 2, b \div 2, n - 1)

\* a & b, a ^ b, a | b, !a on words
BitAnd(a, b) == FromHalves(AndN(Hi(a), Hi(b), 16), AndN(Lo(a), Lo(b), 16))

BitXor(a, b) == FromHalves(XorN(Hi(a), Hi(b), 16), XorN(Lo(a), Lo(b), 16))

BitNot(a) == FromHalves(HALF - 1 - Hi(a), HALF - 1 - Lo(a))

BitOr(a, b) == BitNot(BitAnd(BitNot(a), BitNot(b)))

\* byte i (0 the lowest) of a word
Byte(v, i) == ((IF i < 2 THEN Lo(v) ELSE Hi(v)) \div (IF i % 2 = 0 THEN 1 ELSE 256)) % 256

\* u32::wrapping_mul, by columns of byte products with the carries passed up
wrapping_mul(a, b) ==
    LET c0 == Byte(a, 0) * Byte(b, 0)
        c1 == Byte(a, 0) * Byte(b, 1) + Byte(a, 1) * Byte(b, 0) + (c0 \div 256)
        c2 == Byte(a, 0) * Byte(b, 2) + Byte(a, 1) * Byte(b, 1)
                + Byte(a, 2) * Byte(b, 0) + (c1 \div 256)
        c3 == Byte(a, 0) * Byte(b, 3) + Byte(a, 1) * Byte(b, 2)
                + Byte(a, 2) * Byte(b, 1) + Byte(a, 3) * Byte(b, 0) + (c2 \div 256)
    IN  FromHalves((c3 % 256) * 256 + (c2 % 256), (c1 % 256) * 256 + (c0 % 256))

-----------------------------------------------------------------------------
(* The bus: a cartridge over a ROM image (rom.rs), read through the        *)
(* derived little-endian accessors of the Bus trait (bus.rs).              *)

\* Cartridge::read_byte: the ROM byte, 0 beyond the end of the image
read_byte(bus, addr) ==
    IF addr >= 0 /\ addr < Len(bus) THEN bus[addr + 1] ELSE 0

\* Bus::read_hword
read_hword(bus, addr) ==
    LET lo == read_byte(bus, addr)
        hi == read_byte(bus, wrapping_add(addr, 1))
    IN  lo + 256 * hi

\* Bus::read_word
read_word(bus, addr) ==
    LET lo == read_hword(bus, addr)
        hi == read_hword(bus, wrapping_add(addr, 2))
    IN  FromHalves(hi, lo)

\* impl Bus for &[u8] and &mut [u8], read_byte: self[addr as usize], which
\* panics when the index is outside the slice
slice_read_byte(mem, addr) ==
    IF addr >= 0 /\ addr < Len(mem)
    THEN [value |-> mem[addr + 1], panic |-> FALSE]
    ELSE [value |-> 0, panic |-> TRUE]

\* a BIOS image: Bios::new takes a ROM of 0x4000 bytes and no other
BiosRom == [i \in 1..(64 * 256) |-> i % 251]

\* impl Bus for Bios, read_byte: the byte slice of the ROM read at the address,
\* or within the last prefetched word while the BIOS is protected; b is the
\* Bios as update_protection leaves it (rom, readable, prefetch_addr)
bios_read_byte(b, addr) ==
    slice_read_byte(b.rom,
                    IF b.readable THEN addr
                    ELSE BitOr(b.prefetch_addr, addr % 4))

\* Bios::reset
bios_reset(b) == [b EXCEPT !.readable = FALSE, !.prefetch_addr = 0]

\* update_protection with the recorded address cleared when the argument is None
update_protectionForgets(b, prefetch_addr) ==
    [b EXCEPT !.readable = Len(prefetch_addr) > 0,
              !.prefetch_addr = IF Len(prefetch_addr) > 0
                                THEN ClearLow(prefetch_addr[1], 4)
                                ELSE 0]

\* Bios::update_protection; the Option is a sequence, <<>> for None and
\* <<addr>> for Some(addr)
update_protection(b, prefetch_addr) ==
    [b EXCEPT !.readable = Len(prefetch_addr) > 0,
              !.prefetch_addr = IF Len(prefetch_addr) > 0
                                THEN ClearLow(prefetch_addr[1], 4)
                                ELSE @]

\* impl Bus for &mut [u8], write_byte: self[addr as usize] = value, which panics
\* when the index is outside the slice; nothing runs after a panic
slice_write_byte(b, addr, value) ==
    IF b.panic THEN b
    ELSE IF addr >= 0 /\ addr < Len(b.mem)
    THEN [b EXCEPT !.mem[addr + 1] = value]
    ELSE [b EXCEPT !.panic = TRUE]

\* Bus::write_hword (write_hword_as_bytes): the low byte, then bits 8.. of the u16
write_hword(b, addr, value) ==
    slice_write_byte(slice_write_byte(b, addr, value % 256),
                     wrapping_add(addr, 1), value \div 256)

\* write_word with the high half stored at the lower address
write_wordHighFirst(b, addr, value) ==
    write_hword(write_hword(b, addr, Hi(value)), wrapping_add(addr, 2), Lo(value))

\* Bus::write_word: the low u16, then bits 16.. of the u32
write_word(b, addr, value) ==
    write_hword(write_hword(b, addr, Lo(value)), wrapping_add(addr, 2), Hi(value))

-----------------------------------------------------------------------------
(* Exceptions (mod.rs).                                                    *)

\* enum Exception, in declaration order: the discriminant is the priority
Exceptions ==
    <<"Reset", "DataAbort", "FastInterrupt", "Interrupt", "PrefetchAbort",
      "SoftwareInterrupt", "UndefinedInstr">>

NumExceptions == Len(Exceptions)

\* from_priority with DataAbort and FastInterrupt in each other's place
from_priority_swapped(p) ==
    CASE p = 1 -> "FastInterrupt"
      [] p = 2 -> "DataAbort"
      [] OTHER -> Exceptions[p + 1]

\* Exception::from_priority (priorities count from 0)
from_priority(p) == Exceptions[p + 1]

\* Exception::priority
priority(e) == CHOOSE p \in 0..(NumExceptions - 1) : Exceptions[p + 1] = e

\* vector_addr with the two abort vectors in each other's place
vector_addr_swapped(e) ==
    CASE e = "Reset" -> 0
      [] e = "UndefinedInstr" -> 4
      [] e = "SoftwareInterrupt" -> 8
      [] e = "PrefetchAbort" -> 16
      [] e = "DataAbort" -> 12
      [] e = "Interrupt" -> 24
      [] e = "FastInterrupt" -> 28

\* Exception::vector_addr
vector_addr(e) ==
    CASE e = "Reset" -> 0
      [] e = "UndefinedInstr" -> 4
      [] e = "SoftwareInterrupt" -> 8
      [] e = "PrefetchAbort" -> 12
      [] e = "DataAbort" -> 16
      [] e = "Interrupt" -> 24
      [] e = "FastInterrupt" -> 28

\* Exception::entry_mode
entry_mode(e) ==
    CASE e \in {"Reset", "SoftwareInterrupt"} -> "Supervisor"
      [] e \in {"PrefetchAbort", "DataAbort"} -> "Abort"
      [] e = "Interrupt" -> "Interrupt"
      [] e = "FastInterrupt" -> "FastInterrupt"
      [] e = "UndefinedInstr" -> "UndefinedInstr"

\* Exception::disables_fiq
disables_fiq(e) == e = "Reset" \/ e = "FastInterrupt"

-----------------------------------------------------------------------------
(* The register file (module reg: OperationMode, OperationState,           *)
(* StatusRegister, Registers).                                             *)

Modes ==
    {"User", "FastInterrupt", "Interrupt", "Supervisor", "Abort",
     "UndefinedInstr", "System"}

PC_INDEX == 15

LR_INDEX == 14

SP_INDEX == 13

\* OperationState::instr_size
instr_size(state) == IF state = "Thumb" THEN 2 ELSE 4

\* the mode number held in the low five bits of a status register
ModeBits(mode) ==
    CASE mode = "User" -> 16
      [] mode = "FastInterrupt" -> 17
      [] mode = "Interrupt" -> 18
      [] mode = "Supervisor" -> 19
      [] mode = "Abort" -> 23
      [] mode = "UndefinedInstr" -> 27
      [] mode = "System" -> 31

Bit(b) == IF b THEN 1 ELSE 0

\* StatusRegister::bits: N Z C V in bits 31..28, I F T in bits 7..5, the mode below
StatusBits(sr) ==
    FromHalves(
        Bit(sr.signed) * 32768 + Bit(sr.zero) * 16384
            + Bit(sr.carry) * 8192 + Bit(sr.overflow) * 4096,
        Bit(sr.irq_disabled) * 128 + Bit(sr.fiq_disabled) * 64
            + Bit(sr.state = "Thumb") * 32 + ModeBits(sr.mode))

\* StatusRegister::set_nz_from
set_nz_from(sr, result) ==
    [sr EXCEPT !.signed = is_negative(result), !.zero = (result = 0)]

\* the bank a mode's r13, r14 and saved status live in
BankOf(mode) ==
    CASE mode \in {"User", "System"} -> "usr"
      [] mode = "FastInterrupt" -> "fiq"
      [] mode = "Interrupt" -> "irq"
      [] mode = "Supervisor" -> "svc"
      [] mode = "Abort" -> "abt"
      [] mode = "UndefinedInstr" -> "und"

BankIds == {"usr", "fiq", "irq", "svc", "abt", "und"}

\* the copy of r8..r12 a bank sees: FastInterrupt has its own, the others share one
HighGroup(bank) == IF bank = "fiq" THEN "fiq" ELSE "usr"

\* Registers::change_mode: the active r13, r14 and saved status (and r8..r12) are
\* stored in the old mode's bank, the new mode's are swapped in, and the other
\* registers keep their values
change_mode(c, mode) ==
    LET ob == BankOf(c.cpsr.mode)
        nb == BankOf(mode)
        kept == [c.banks EXCEPT !.sp[ob] = c.r[SP_INDEX],
                                !.lr[ob] = c.r[LR_INDEX],
                                !.spsr[ob] = c.spsr,
                                !.high[HighGroup(ob)] = [i \in 8..12 |-> c.r[i]]]
    IN  IF ob = nb
        THEN [c EXCEPT !.cpsr.mode = mode]
        ELSE [c EXCEPT
                !.cpsr.mode = mode,
                !.banks = kept,
                !.spsr = kept.spsr[nb],
                !.r = [i \in 0..15 |->
                        CASE i = SP_INDEX -> kept.sp[nb]
                          [] i = LR_INDEX -> kept.lr[nb]
                          [] i \in 8..12 -> kept.high[HighGroup(nb)][i]
                          [] OTHER -> c.r[i]]]

-----------------------------------------------------------------------------
(* The pipeline and exception entry (mod.rs).                              *)

\* Cpu::step_pipeline
\* step_pipeline without the move of the next slot into the current slot
step_pipelineNoShift(c, bus) ==
    LET state == c.cpsr.state
        pc == ClearLow(c.r[PC_INDEX], IF state = "Thumb" THEN 2 ELSE 4)
        fetched == IF state = "Thumb" THEN read_hword(bus, pc) ELSE read_word(bus, pc)
    IN  [c EXCEPT
            !.pipeline_instrs[2] = fetched,
            !.r[PC_INDEX] = wrapping_add(pc, instr_size(state))]

\* Cpu::step_pipeline
step_pipeline(c, bus) ==
    LET state == c.cpsr.state
        pc == ClearLow(c.r[PC_INDEX], IF state = "Thumb" THEN 2 ELSE 4)
        fetched == IF state = "Thumb" THEN read_hword(bus, pc) ELSE read_word(bus, pc)
    IN  [c EXCEPT
            !.pipeline_instrs = <<c.pipeline_instrs[2], fetched>>,
            !.r[PC_INDEX] = wrapping_add(pc, instr_size(state))]

\* Cpu::reload_pipeline
reload_pipeline(c, bus) ==
    step_pipeline([c EXCEPT !.pipeline_instrs[1] = 0], bus)

\* IsMasked without the test of fiq_disabled
IsMaskedIrqOnly(sr, exception) == sr.irq_disabled /\ exception = "Interrupt"

\* the early return of Cpu::enter_exception: a masked interrupt is not entered
IsMasked(sr, exception) ==
    \/ sr.irq_disabled /\ exception = "Interrupt"
    \/ sr.fiq_disabled /\ exception = "FastInterrupt"

\* EnterSequence with the link register one instruction of the interrupted
\* instruction set below the PC
EnterSequenceOldWidth(c, bus, exception) ==
    LET old_cpsr == c.cpsr
        c1 == change_mode(c, entry_mode(exception))
        c2 == [c1 EXCEPT
                !.cpsr.fiq_disabled = @ \/ disables_fiq(exception),
                !.cpsr.irq_disabled = TRUE,
                !.cpsr.state = "Arm"]
        c3 == [c2 EXCEPT
                !.spsr = StatusBits(old_cpsr),
                !.r[LR_INDEX] =
                    wrapping_sub(c2.r[PC_INDEX], instr_size(old_cpsr.state)),
                !.r[PC_INDEX] = vector_addr(exception)]
    IN  reload_pipeline(c3, bus)

\* the entry sequence without the write of interrupt-disable
EnterSequenceIrqOpen(c, bus, exception) ==
    LET old_cpsr == c.cpsr
        c1 == change_mode(c, entry_mode(exception))
        c2 == [c1 EXCEPT
                !.cpsr.fiq_disabled = @ \/ disables_fiq(exception),
                !.cpsr.state = "Arm"]
        c3 == [c2 EXCEPT
                !.spsr = StatusBits(old_cpsr),
                !.r[LR_INDEX] =
                    wrapping_sub(c2.r[PC_INDEX], instr_size(c2.cpsr.state)),
                !.r[PC_INDEX] = vector_addr(exception)]
    IN  reload_pipeline(c3, bus)

\* the entry sequence with the return address written to r14 before the switch
\* of mode instead of after it
EnterSequenceLinkFirst(c, bus, exception) ==
    LET old_cpsr == c.cpsr
        c0 == [c EXCEPT !.r[LR_INDEX] = wrapping_sub(c.r[PC_INDEX], instr_size("Arm"))]
        c1 == change_mode(c0, entry_mode(exception))
        c2 == [c1 EXCEPT
                !.cpsr.fiq_disabled = @ \/ disables_fiq(exception),
                !.cpsr.irq_disabled = TRUE,
                !.cpsr.state = "Arm"]
        c3 == [c2 EXCEPT
                !.spsr = StatusBits(old_cpsr),
                !.r[PC_INDEX] = vector_addr(exception)]
    IN  reload_pipeline(c3, bus)

\* Cpu::enter_exception past the mask test
EnterSequence(c, bus, exception) ==
    LET old_cpsr == c.cpsr
        c1 == change_mode(c, entry_mode(exception))
        c2 == [c1 EXCEPT
                !.cpsr.fiq_disabled = @ \/ disables_fiq(exception),
                !.cpsr.irq_disabled = TRUE,
                !.cpsr.state = "Arm"]
        c3 == [c2 EXCEPT
                !.spsr = StatusBits(old_cpsr),
                !.r[LR_INDEX] =
                    wrapping_sub(c2.r[PC_INDEX], instr_size(c2.cpsr.state)),
                !.r[PC_INDEX] = vector_addr(exception)]
    IN  reload_pipeline(c3, bus)

\* Cpu::enter_exception: whether the exception was entered, and the core after it
enter_exception(c, bus, exception) ==
    IF IsMasked(c.cpsr, exception)
    THEN [entered |-> FALSE, cpu |-> c]
    ELSE [entered |-> TRUE, cpu |-> EnterSequence(c, bus, exception)]

\* reset without the final write of the link register
resetKeepsLr(c, bus) ==
    LET c1 == [c EXCEPT
                !.run_state = "Running",
                !.pending_exceptions = [p \in 0..(NumExceptions - 1) |-> FALSE]]
        c2 == enter_exception(c1, bus, "Reset").cpu
    IN  step_pipeline(c2, bus)

\* reset without the clearing of the pending flags
resetKeepsPending(c, bus) ==
    LET c1 == [c EXCEPT !.run_state = "Running"]
        c2 == enter_exception(c1, bus, "Reset").cpu
        c3 == step_pipeline(c2, bus)
    IN  [c3 EXCEPT !.r[LR_INDEX] = 0]

\* Cpu::reset
reset(c, bus) ==
    LET c1 == [c EXCEPT
                !.run_state = "Running",
                !.pending_exceptions = [p \in 0..(NumExceptions - 1) |-> FALSE]]
        c2 == enter_exception(c1, bus, "Reset").cpu
        c3 == step_pipeline(c2, bus)
    IN  [c3 EXCEPT !.r[LR_INDEX] = 0]

\* Cpu::skip_bios: r0..r12 are cleared, the stack pointers of Supervisor,
\* Interrupt and System mode are set in turn, each after the switch to its mode,
\* and the pipeline is filled from the start of the cartridge
skip_bios(c, bus) ==
    LET c0 == [c EXCEPT !.r = [i \in 0..15 |-> IF i <= 12 THEN 0 ELSE @[i]]]
        c1 == [change_mode(c0, "Supervisor") EXCEPT
                !.r[SP_INDEX] = FromHalves(768, 32736),
                !.r[LR_INDEX] = 0,
                !.spsr = 0]
        c2 == [change_mode(c1, "Interrupt") EXCEPT
                !.r[SP_INDEX] = FromHalves(768, 32672),
                !.r[LR_INDEX] = 0,
                !.spsr = 0]
        c3 == [change_mode(c2, "System") EXCEPT
                !.r[SP_INDEX] = FromHalves(768, 32512),
                !.r[PC_INDEX] = FromHalves(2048, 0)]
    IN  step_pipeline(reload_pipeline(c3, bus), bus)

\* raise_exception with the flag inverted instead of set
raise_exceptionToggle(c, exception) ==
    [c EXCEPT !.pending_exceptions[priority(exception)] = ~@]

\* Cpu::raise_exception
raise_exception(c, exception) ==
    [c EXCEPT !.pending_exceptions[priority(exception)] = TRUE]
-----------------------------------------------------------------------------
(* Shared primitives (op.rs) used by the instructions executed here.       *)

\* Cpu::execute_bx
execute_bx(c, bus, pc) ==
    IF pc % 2 = 0
    THEN reload_pipeline([c EXCEPT !.r[PC_INDEX] = pc, !.cpsr.state = "Thumb"], bus)
    ELSE reload_pipeline(
            [c EXCEPT !.r[PC_INDEX] = ClearLow(pc, 4), !.cpsr.state = "Arm"], bus)

\* Cpu::execute_mov (op.rs)
execute_mov(sr, update_cond, value) ==
    [value |-> value, cpsr |-> IF update_cond THEN set_nz_from(sr, value) ELSE sr]

\* i32::overflowing_add: the wrapped sum, and whether the true sum is outside
\* the signed range (told from the floor of half the true sum, which fits)
overflowing_add(x, y) ==
    [value |-> wrapping_add(x, y),
     overflow |->
        \/ (x \div 2) + (y \div 2) + (((x % 2) + (y % 2)) \div 2) < MinWord \div 2
        \/ (x \div 2) + (y \div 2) + (((x % 2) + (y % 2)) \div 2) >= -(MinWord \div 2)]

\* i64::from(a) + i64::from(b) + i64::from(c) > u32::MAX, by 16-bit columns
CarryOut(a, b, c) ==
    Hi(a) + Hi(b) + Hi(c) + ((Lo(a) + Lo(b) + Lo(c)) \div HALF) >= HALF

\* the flag updates of execute_add_impl, given the two partial sums
AddFlags(sr, update_cond, a_b, a_b_c, carry) ==
    IF update_cond
    THEN set_nz_from([sr EXCEPT !.overflow = a_b.overflow \/ a_b_c.overflow,
                                !.carry = carry],
                     a_b_c.value)
    ELSE sr

\* AddSums with the overflow of the second partial sum left out
AddSumsFirstOverflowOnly(sr, update_cond, a, b, c, a_b) ==
    [value |-> overflowing_add(a_b.value, c).value,
     cpsr |-> AddFlags(sr, update_cond, a_b,
                       [overflowing_add(a_b.value, c) EXCEPT !.overflow = FALSE],
                       CarryOut(a, b, c))]

\* execute_add_impl past the first partial sum a_b
AddSums(sr, update_cond, a, b, c, a_b) ==
    [value |-> overflowing_add(a_b.value, c).value,
     cpsr |-> AddFlags(sr, update_cond, a_b, overflowing_add(a_b.value, c),
                       CarryOut(a, b, c))]

\* execute_add_impl: the result, and the status register after it
execute_add_impl(sr, update_cond, a, b, c) ==
    AddSums(sr, update_cond, a, b, c, overflowing_add(a, b))

\* SubForce without the forced overflow
SubForceNever(update_cond, overflow, res) == res

\* the end of execute_sub_impl: cpsr.overflow |= update_cond && overflow
SubForce(update_cond, overflow, res) ==
    [res EXCEPT !.cpsr.overflow = @ \/ (update_cond /\ overflow)]

\* execute_sub_impl with carry set whenever a >= b as unsigned words, b = 0
\* included
execute_sub_implNoBorrow(sr, update_cond, a, b, c) ==
    LET res == SubForce(update_cond, b = MinWord,
                        execute_add_impl(sr, update_cond, a, wrapping_neg(b),
                                         wrapping_neg(c)))
        a_ge_b == IF (a < 0) = (b < 0) THEN a >= b ELSE a < 0
    IN  IF update_cond /\ c = 0 THEN [res EXCEPT !.cpsr.carry = a_ge_b] ELSE res

\* execute_sub_impl: (b as i32).overflowing_neg() overflows at i32::MIN only
execute_sub_impl(sr, update_cond, a, b, c) ==
    SubForce(update_cond, b = MinWord,
             execute_add_impl(sr, update_cond, a, wrapping_neg(b), wrapping_neg(c)))

\* Cpu::execute_add_cmn, execute_sub_cmp
execute_add_cmn(sr, update_cond, a, b) == execute_add_impl(sr, update_cond, a, b, 0)

execute_sub_cmp(sr, update_cond, a, b) == execute_sub_impl(sr, update_cond, a, b, 0)

\* Cpu::execute_adc, execute_sbc
execute_adc(sr, update_cond, a, b) ==
    execute_add_impl(sr, update_cond, a, b, Bit(sr.carry))

execute_sbc(sr, update_cond, a, b) ==
    execute_sub_impl(sr, update_cond, a, b, Bit(~sr.carry))

\* the end of the logical operations and of multiply: set_nz_from(result)
NzResult(sr, result) == [value |-> result, cpsr |-> set_nz_from(sr, result)]

\* execute_mul with the carry flag cleared
execute_mulClearsCarry(sr, a, b) ==
    NzResult([sr EXCEPT !.carry = FALSE], wrapping_mul(a, b))

\* Cpu::execute_mul (op.rs)
execute_mul(sr, a, b) == NzResult(sr, wrapping_mul(a, b))

\* Cpu::execute_and_tst, execute_bic, execute_eor, execute_orr, execute_mvn
execute_and_tst(sr, a, b) == NzResult(sr, BitAnd(a, b))

execute_bic(sr, a, b) == NzResult(sr, BitAnd(a, BitNot(b)))

execute_eor(sr, a, b) == NzResult(sr, BitXor(a, b))

execute_orr(sr, a, b) == NzResult(sr, BitOr(a, b))

execute_mvn(sr, value) == NzResult(sr, BitNot(value))

\* u32::checked_shl(n).unwrap_or(0) and u32::checked_shr(n).unwrap_or(0)
checked_shl_or_0(v, n) == IF n >= 32 THEN 0 ELSE Shl(v, n)

checked_shr_or_0(v, n) == IF n >= 32 THEN 0 ELSE Shr(v, n)

\* the end of execute_lsl for offset > 0, given the value shifted by offset - 1
LslLastBit(sr, result) ==
    NzResult([sr EXCEPT !.carry = is_negative(result)], Shl1(result))

\* execute_lsl with the amount of the first shift counted modulo 32, as an
\* unchecked shift counts it
execute_lslWrapping(sr, value, offset) ==
    IF offset > 0
    THEN LslLastBit(sr, Shl(value, (offset - 1) % 32))
    ELSE NzResult(sr, value)

\* Cpu::execute_lsl
execute_lsl(sr, value, offset) ==
    IF offset > 0
    THEN LslLastBit(sr, checked_shl_or_0(value, offset - 1))
    ELSE NzResult(sr, value)

\* the end of execute_lsr, given the value shifted by offset - 1
LsrLastBit(sr, result) ==
    NzResult([sr EXCEPT !.carry = (result % 2 = 1)], Shr1(result))

\* execute_lsr with offset 0 shifting by nothing
execute_lsrZeroIsZero(sr, value, offset) ==
    IF offset = 0 THEN NzResult(sr, value)
    ELSE LsrLastBit(sr, checked_shr_or_0(value, offset - 1))

\* execute_lsr with the amount of the first shift counted modulo 32
execute_lsrWrapping(sr, value, offset) ==
    LsrLastBit(sr, Shr(value, ((IF offset = 0 THEN 32 ELSE offset) - 1) % 32))

\* Cpu::execute_lsr: offset 0 works like offset 32
execute_lsr(sr, value, offset) ==
    LsrLastBit(sr, checked_shr_or_0(value, (IF offset = 0 THEN 32 ELSE offset) - 1))

\* execute_asr with 0 taken for a shift of 32 bits or more, whatever the sign
execute_asrZeroFill(sr, value, offset) ==
    LET n == (IF offset = 0 THEN 32 ELSE offset) - 1
        result == IF n >= 32 THEN 0 ELSE Sar(value, n)
    IN  NzResult([sr EXCEPT !.carry = (result % 2 = 1)], Sar1(result))

\* Cpu::execute_asr: offset 0 works like offset 32, and a shift of 32 bits or
\* more gives the sign in every bit
execute_asr(sr, value, offset) ==
    LET n == (IF offset = 0 THEN 32 ELSE offset) - 1
        overflow_result == IF is_negative(value) THEN -1 ELSE 0
        result == IF n >= 32 THEN overflow_result ELSE Sar(value, n)
    IN  NzResult([sr EXCEPT !.carry = (result % 2 = 1)], Sar1(result))

\* execute_ror with the carry flag read after the last rotation
execute_rorCarryLate(sr, value, offset) ==
    IF offset > 0
    THEN LET result == Ror1(rotate_right(value, offset - 1))
         IN  NzResult([sr EXCEPT !.carry = (result % 2 = 1)], result)
    ELSE NzResult(sr, value)

\* Cpu::execute_ror (op.rs)
execute_ror(sr, value, offset) ==
    IF offset > 0
    THEN LET result == rotate_right(value, offset - 1)
         IN  NzResult([sr EXCEPT !.carry = (result % 2 = 1)], Ror1(result))
    ELSE NzResult(sr, value)

-----------------------------------------------------------------------------
(* The 16-bit decoder (thumb.rs).                                          *)

\* decode_format with the two exact matches of the top byte tested after the
\* families of prefixes
decode_formatFamiliesFirst(instr) ==
    LET hi8 == instr \div 256
        hi6 == hi8 \div 4
        hi5 == hi8 \div 8
        hi4 == hi8 \div 16
        hi3 == hi8 \div 32
        bit9 == (hi8 \div 2) % 2 = 1
    IN  IF hi6 = 16 THEN "AluOp"
        ELSE IF hi6 = 17 THEN "HiRegOpBranchExchange"
        ELSE IF hi5 = 3 THEN "AddSub"
        ELSE IF hi5 = 9 THEN "LoadPcRel"
        ELSE IF hi5 = 28 THEN "UncondBranch"
        ELSE IF hi4 = 5 /\ bit9 THEN "LoadStoreSignExtend"
        ELSE IF hi4 = 5 /\ ~bit9 THEN "LoadStoreRel"
        ELSE IF hi4 = 8 THEN "LoadStoreHword"
        ELSE IF hi4 = 9 THEN "LoadStoreSpRel"
        ELSE IF hi4 = 10 THEN "LoadAddr"
        ELSE IF hi4 = 11 THEN "PushPopReg"
        ELSE IF hi4 = 12 THEN "MultiLoadStore"
        ELSE IF hi4 = 13 THEN "CondBranch"
        ELSE IF hi4 = 15 THEN "LongBranchWithLink"
        ELSE IF hi3 = 0 THEN "MoveShiftedReg"
        ELSE IF hi8 = 176 THEN "AddSp"
        ELSE IF hi8 = 191 THEN "SoftwareInterrupt"
        ELSE IF hi3 = 1 THEN "MoveCmpAddSubImm"
        ELSE IF hi3 = 3 THEN "LoadStoreImm"
        ELSE "Undefined"

\* decode_format without the arm of LoadStoreImm, whose words fall to the last arm
decode_formatNoLoadStoreImm(instr) ==
    LET hi8 == instr \div 256
        hi6 == hi8 \div 4
        hi5 == hi8 \div 8
        hi4 == hi8 \div 16
        hi3 == hi8 \div 32
        bit9 == (hi8 \div 2) % 2 = 1
    IN  IF hi8 = 176 THEN "AddSp"
        ELSE IF hi8 = 191 THEN "SoftwareInterrupt"
        ELSE IF hi6 = 16 THEN "AluOp"
        ELSE IF hi6 = 17 THEN "HiRegOpBranchExchange"
        ELSE IF hi5 = 3 THEN "AddSub"
        ELSE IF hi5 = 9 THEN "LoadPcRel"
        ELSE IF hi5 = 28 THEN "UncondBranch"
        ELSE IF hi4 = 5 /\ bit9 THEN "LoadStoreSignExtend"
        ELSE IF hi4 = 5 /\ ~bit9 THEN "LoadStoreRel"
        ELSE IF hi4 = 8 THEN "LoadStoreHword"
        ELSE IF hi4 = 9 THEN "LoadStoreSpRel"
        ELSE IF hi4 = 10 THEN "LoadAddr"
        ELSE IF hi4 = 11 THEN "PushPopReg"
        ELSE IF hi4 = 12 THEN "MultiLoadStore"
        ELSE IF hi4 = 13 THEN "CondBranch"
        ELSE IF hi4 = 15 THEN "LongBranchWithLink"
        ELSE IF hi3 = 0 THEN "MoveShiftedReg"
        ELSE IF hi3 = 1 THEN "MoveCmpAddSubImm"
        ELSE "Undefined"

\* decode_format: the first matching arm of the match, in the order of the source
decode_format(instr) ==
    LET hi8 == instr \div 256
        hi6 == hi8 \div 4
        hi5 == hi8 \div 8
        hi4 == hi8 \div 16
        hi3 == hi8 \div 32
        bit9 == (hi8 \div 2) % 2 = 1
    IN  IF hi8 = 176 THEN "AddSp"
        ELSE IF hi8 = 191 THEN "SoftwareInterrupt"
        ELSE IF hi6 = 16 THEN "AluOp"
        ELSE IF hi6 = 17 THEN "HiRegOpBranchExchange"
        ELSE IF hi5 = 3 THEN "AddSub"
        ELSE IF hi5 = 9 THEN "LoadPcRel"
        ELSE IF hi5 = 28 THEN "UncondBranch"
        ELSE IF hi4 = 5 /\ bit9 THEN "LoadStoreSignExtend"
        ELSE IF hi4 = 5 /\ ~bit9 THEN "LoadStoreRel"
        ELSE IF hi4 = 8 THEN "LoadStoreHword"
        ELSE IF hi4 = 9 THEN "LoadStoreSpRel"
        ELSE IF hi4 = 10 THEN "LoadAddr"
        ELSE IF hi4 = 11 THEN "PushPopReg"
        ELSE IF hi4 = 12 THEN "MultiLoadStore"
        ELSE IF hi4 = 13 THEN "CondBranch"
        ELSE IF hi4 = 15 THEN "LongBranchWithLink"
        ELSE IF hi3 = 0 THEN "MoveShiftedReg"
        ELSE IF hi3 = 1 THEN "MoveCmpAddSubImm"
        ELSE IF hi3 = 3 THEN "LoadStoreImm"
        ELSE "Undefined"

\* the formats whose arm of Cpu::execute_thumb is todo!()
TodoFormats ==
    {"HiRegOpBranchExchange", "LoadPcRel", "LoadStoreRel", "LoadStoreSignExtend",
     "LoadStoreImm", "LoadStoreHword", "LoadStoreSpRel", "LoadAddr", "AddSp",
     "PushPopReg", "MultiLoadStore", "CondBranch", "UncondBranch",
     "LongBranchWithLink"}

\* a shift of a 32-bit value by n bits as the host computes it: the amount is
\* taken modulo 32 where the build does not check it (ovf tells that it was >= 32)
HostShl(v, n) == [value |-> Shl(v, n % 32), ovf |-> n >= 32 \/ n < 0]

HostShr(v, n) == [value |-> Shr(v, n % 32), ovf |-> n >= 32 \/ n < 0]

HostSar(v, n) == [value |-> Sar(v, n % 32), ovf |-> n >= 32 \/ n < 0]

\* Cpu::execute_add (thumb.rs)
thumb_execute_add(sr, a, b) ==
    LET lo == Lo(a) + Lo(b)
        hi == Hi(a) + Hi(b) + (lo \div HALF)
        result == FromHalves(hi % HALF, lo % HALF)
        a_neg == is_negative(a)
        b_neg == is_negative(b)
        same_sign == a_neg = b_neg
        sr1 == [sr EXCEPT !.overflow = same_sign /\ (is_negative(result) /= a_neg),
                          !.carry = hi >= HALF]
    IN  [value |-> result, cpsr |-> set_nz_from(sr1, result), ovf |-> FALSE]

\* Cpu::execute_sub (thumb.rs): -(b as i32) overflows the host for i32::MIN
thumb_execute_sub(sr, a, b) ==
    [thumb_execute_add(sr, a, wrapping_neg(b)) EXCEPT !.ovf = (b = MinWord)]

\* Cpu::execute_mov (thumb.rs)
thumb_execute_mov(sr, value) ==
    [value |-> value, cpsr |-> set_nz_from(sr, value), ovf |-> FALSE]

\* Cpu::execute_lsl_asl (thumb.rs)
execute_lsl_asl(sr, value, offset) ==
    LET shifted == HostShl(value, offset)
        probe == HostShl(value, offset - 1)
        result == IF offset /= 0 THEN shifted.value ELSE value
        sr1 == IF offset /= 0
               THEN [sr EXCEPT !.carry = is_negative(probe.value)]
               ELSE sr
    IN  [value |-> result, cpsr |-> set_nz_from(sr1, result),
         ovf |-> offset /= 0 /\ (shifted.ovf \/ probe.ovf)]

\* execute_lsr_asr with offset 0 working like offset 32, as in execute_lsr and
\* execute_asr of op.rs
execute_lsr_asrZeroIs32(sr, value, offset, logical) ==
    LET shifted == IF logical THEN HostShr(value, offset) ELSE HostSar(value, offset)
        probe == HostShr(value, offset - 1)
        result == IF offset /= 0 THEN shifted.value
                  ELSE IF logical \/ value >= 0 THEN 0 ELSE -1
        sr1 == IF offset /= 0
               THEN [sr EXCEPT !.carry = (probe.value % 2 = 1)]
               ELSE [sr EXCEPT !.carry = is_negative(value)]
    IN  [value |-> result, cpsr |-> set_nz_from(sr1, result),
         ovf |-> offset /= 0 /\ (shifted.ovf \/ probe.ovf)]

\* Cpu::execute_lsr_asr (thumb.rs)
execute_lsr_asr(sr, value, offset, logical) ==
    LET shifted == IF logical THEN HostShr(value, offset) ELSE HostSar(value, offset)
        probe == HostShr(value, offset - 1)
        result == IF offset /= 0 THEN shifted.value ELSE value
        sr1 == IF offset /= 0
               THEN [sr EXCEPT !.carry = (probe.value % 2 = 1)]
               ELSE sr
    IN  [value |-> result, cpsr |-> set_nz_from(sr1, result),
         ovf |-> offset /= 0 /\ (shifted.ovf \/ probe.ovf)]

\* Cpu::execute_ror (thumb.rs): offset - 1 underflows the host's u8 at offset 0
thumb_execute_ror(sr, value, offset) ==
    LET result == rotate_right(value, offset)
        probe == HostShr(value, (offset - 1) % 256)
        sr1 == [sr EXCEPT !.carry = (probe.value % 2 = 1)]
    IN  [value |-> result, cpsr |-> set_nz_from(sr1, result),
         ovf |-> offset = 0 \/ probe.ovf]

\* Cpu::execute_adc (thumb.rs)
thumb_execute_adc(sr, a, b) ==
    thumb_execute_add(sr, a, wrapping_add(b, Bit(sr.carry)))

\* Cpu::execute_sbc (thumb.rs)
thumb_execute_sbc(sr, a, b) ==
    thumb_execute_sub(sr, a, wrapping_add(b, Bit(~sr.carry)))

\* Cpu::execute_mul (thumb.rs)
thumb_execute_mul(sr, a, b) ==
    LET result == wrapping_mul(a, b)
    IN  [value |-> result, cpsr |-> set_nz_from(sr, result), ovf |-> FALSE]

\* Cpu::execute_and (thumb.rs)
thumb_execute_and(sr, a, b) ==
    LET result == BitAnd(a, b)
    IN  [value |-> result, cpsr |-> set_nz_from(sr, result), ovf |-> FALSE]

\* an inline logical operation of the AluOp arm: the result sets zero and negative
InlineLogical(sr, result) ==
    [value |-> result, cpsr |-> set_nz_from(sr, result), ovf |-> FALSE]

\* what the arm of a format computes: the result, the status register after it,
\* whether the result is written to r_dst, and whether the host arithmetic
\* overflowed on the way
MoveShiftedRegOp(c, instr) ==
    LET offset == (instr \div 64) % 32
        value == c.r[(instr \div 8) % 8]
        op == (instr \div 2048) % 4
    IN  IF op = 0
        THEN execute_lsl_asl(c.cpsr, value, offset) @@ [write |-> TRUE]
        ELSE execute_lsr_asr(c.cpsr, value, offset, op = 1) @@ [write |-> TRUE]

AddSubOp(c, instr) ==
    LET a == c.r[(instr \div 8) % 8]
        r_or_imm == (instr \div 64) % 8
        op == (instr \div 512) % 4
        b == IF (op \div 2) % 2 = 0 THEN c.r[r_or_imm] ELSE r_or_imm
    IN  IF op % 2 = 0
        THEN thumb_execute_add(c.cpsr, a, b) @@ [write |-> TRUE]
        ELSE thumb_execute_sub(c.cpsr, a, b) @@ [write |-> TRUE]

MoveCmpAddSubImmOp(c, instr) ==
    LET imm == instr % 256
        r_dst == (instr \div 256) % 8
        op == (instr \div 2048) % 4
    IN  CASE op = 0 -> thumb_execute_mov(c.cpsr, imm) @@ [write |-> TRUE]
          [] op = 1 -> thumb_execute_sub(c.cpsr, c.r[r_dst], imm) @@ [write |-> FALSE]
          [] op = 2 -> thumb_execute_add(c.cpsr, c.r[r_dst], imm) @@ [write |-> TRUE]
          [] op = 3 -> thumb_execute_sub(c.cpsr, c.r[r_dst], imm) @@ [write |-> TRUE]

AluOpOp(c, instr) ==
    LET d == c.r[instr % 8]
        value == c.r[(instr \div 8) % 8]
        op == (instr \div 64) % 16
        sr == c.cpsr
    IN  CASE op = 0 -> thumb_execute_and(sr, d, value) @@ [write |-> TRUE]
          [] op = 1 -> InlineLogical(sr, BitXor(d, value)) @@ [write |-> TRUE]
          [] op = 2 -> execute_lsl_asl(sr, d, value % 256) @@ [write |-> TRUE]
          [] op \in {3, 4} ->
                execute_lsr_asr(sr, d, value % 256, op = 3) @@ [write |-> TRUE]
          [] op = 5 -> thumb_execute_adc(sr, d, value) @@ [write |-> TRUE]
          [] op = 6 -> thumb_execute_sbc(sr, d, value) @@ [write |-> TRUE]
          [] op = 7 -> thumb_execute_ror(sr, d, value % 256) @@ [write |-> TRUE]
          [] op = 8 -> thumb_execute_and(sr, d, value) @@ [write |-> FALSE]
          [] op = 9 -> thumb_execute_sub(sr, 0, value) @@ [write |-> TRUE]
          [] op = 10 -> thumb_execute_sub(sr, d, value) @@ [write |-> FALSE]
          [] op = 11 -> thumb_execute_add(sr, d, value) @@ [write |-> FALSE]
          [] op = 12 -> InlineLogical(sr, BitOr(d, value)) @@ [write |-> TRUE]
          [] op = 13 -> thumb_execute_mul(sr, d, value) @@ [write |-> TRUE]
          [] op = 14 -> thumb_execute_and(sr, d, BitNot(value)) @@ [write |-> TRUE]
          [] op = 15 -> InlineLogical(sr, BitNot(value)) @@ [write |-> TRUE]

\* the destination register of the four register-writing formats
ThumbDst(format, instr) ==
    IF format = "MoveCmpAddSubImm" THEN (instr \div 256) % 8 ELSE instr % 8

\* the end of an arithmetic arm: the status register and, where the arm assigns
\* it, r_dst take what the arm computed
WriteBack(c, r_dst, res) ==
    [cpu |-> [c EXCEPT !.cpsr = res.cpsr,
                       !.r[r_dst] = IF res.write THEN res.value ELSE @],
     panic |-> FALSE, ovf |-> res.ovf, exception |-> "None"]

\* the match of Cpu::execute_thumb on the decoded format
ExecuteFormat(c, bus, instr, format) ==
    CASE format \in TodoFormats ->
            [cpu |-> c, panic |-> TRUE, ovf |-> FALSE, exception |-> "None"]
      [] format = "SoftwareInterrupt" ->
            [cpu |-> enter_exception(c, bus, "SoftwareInterrupt").cpu,
             panic |-> FALSE, ovf |-> FALSE, exception |-> "SoftwareInterrupt"]
      [] format = "Undefined" ->
            [cpu |-> enter_exception(c, bus, "UndefinedInstr").cpu,
             panic |-> FALSE, ovf |-> FALSE, exception |-> "UndefinedInstr"]
      [] format = "MoveShiftedReg" ->
            WriteBack(c, ThumbDst(format, instr), MoveShiftedRegOp(c, instr))
      [] format = "AddSub" ->
            WriteBack(c, ThumbDst(format, instr), AddSubOp(c, instr))
      [] format = "MoveCmpAddSubImm" ->
            WriteBack(c, ThumbDst(format, instr), MoveCmpAddSubImmOp(c, instr))
      [] format = "AluOp" ->
            WriteBack(c, ThumbDst(format, instr), AluOpOp(c, instr))

\* Cpu::execute_thumb: the core after the instruction; panic tells that the arm is
\* todo!(), ovf that the host arithmetic overflowed (a panic where the build checks
\* overflow, the wrapped value where it does not), exception the exception the
\* instruction entered
execute_thumb(c, bus, instr) == ExecuteFormat(c, bus, instr, decode_format(instr))

-----------------------------------------------------------------------------
(* The 32-bit decoder (module isa), for the two instructions the unit      *)
(* test of Cpu::step runs: MOV Rd,#imm and BX Rn.                          *)

\* the condition field (bits 31..28) against the flags
ConditionPasses(sr, cond) ==
    CASE cond = 0 -> sr.zero
      [] cond = 1 -> ~sr.zero
      [] cond = 2 -> sr.carry
      [] cond = 3 -> ~sr.carry
      [] cond = 4 -> sr.signed
      [] cond = 5 -> ~sr.signed
      [] cond = 6 -> sr.overflow
      [] cond = 7 -> ~sr.overflow
      [] cond = 8 -> sr.carry /\ ~sr.zero
      [] cond = 9 -> ~sr.carry \/ sr.zero
      [] cond = 10 -> sr.signed = sr.overflow
      [] cond = 11 -> sr.signed /= sr.overflow
      [] cond = 12 -> ~sr.zero /\ (sr.signed = sr.overflow)
      [] cond = 13 -> sr.zero \/ (sr.signed /= sr.overflow)
      [] OTHER -> cond = 14

\* BX Rn: cond 0001 0010 1111 1111 1111 0001 nnnn
IsArmBx(instr) == Hi(instr) % 4096 = 303 /\ Lo(instr) \div 16 = 4081

\* MOV{S} Rd,#imm: cond 00 1 1101 S 0000 dddd rrrr iiiiiiii
IsArmMovImm(instr) == (Hi(instr) % 4096) \div 32 = 29

\* the words of the 32-bit set this model executes
ArmModelled(instr) == IsArmBx(instr) \/ IsArmMovImm(instr)

\* Cpu::execute_arm
execute_arm(c, bus, instr) ==
    LET cond == Hi(instr) \div 4096
        s == (Hi(instr) \div 16) % 2 = 1
        r_dst == Lo(instr) \div 4096
        imm == rotate_right(Lo(instr) % 256, 2 * ((Lo(instr) \div 256) % 16))
        mov == execute_mov(c.cpsr, s, imm)
    IN  IF ~ConditionPasses(c.cpsr, cond) THEN c
        ELSE IF IsArmBx(instr) THEN execute_bx(c, bus, c.r[Lo(instr) % 16])
        ELSE IF IsArmMovImm(instr)
        THEN [c EXCEPT !.cpsr = mov.cpsr, !.r[r_dst] = mov.value]
        ELSE c

-----------------------------------------------------------------------------
(* Cpu::step.                                                              *)

\* ServicePending with a flag cleared only when its exception is entered
RECURSIVE ServicePendingDefer(_, _, _)
ServicePendingDefer(c, bus, p) ==
    IF p >= NumExceptions
    THEN [serviced |-> "None", cpu |-> c]
    ELSE LET raised == c.pending_exceptions[p]
             c1 == [c EXCEPT !.pending_exceptions[p] = FALSE]
             exception == from_priority(p)
             res == enter_exception(c1, bus, exception)
         IN  IF raised /\ res.entered
             THEN [serviced |-> exception, cpu |-> step_pipeline(res.cpu, bus)]
             ELSE ServicePendingDefer(c, bus, p + 1)

\* ServicePending with every pending flag cleared when an exception is entered
RECURSIVE ServicePendingClearAll(_, _, _)
ServicePendingClearAll(c, bus, p) ==
    IF p >= NumExceptions
    THEN [serviced |-> "None", cpu |-> c]
    ELSE LET raised == c.pending_exceptions[p]
             c1 == [c EXCEPT !.pending_exceptions[p] = FALSE]
             c0 == [c EXCEPT
                     !.pending_exceptions = [q \in 0..(NumExceptions - 1) |-> FALSE]]
             exception == from_priority(p)
             res == enter_exception(c0, bus, exception)
         IN  IF raised /\ res.entered
             THEN [serviced |-> exception, cpu |-> step_pipeline(res.cpu, bus)]
             ELSE ServicePendingClearAll(c1, bus, p + 1)

\* the loop over the pending flags, from priority p on: each flag visited is
\* cleared, and the first raised exception that enter_exception accepts ends it
RECURSIVE ServicePending(_, _, _)
ServicePending(c, bus, p) ==
    IF p >= NumExceptions
    THEN [serviced |-> "None", cpu |-> c]
    ELSE LET raised == c.pending_exceptions[p]
             c1 == [c EXCEPT !.pending_exceptions[p] = FALSE]
             exception == from_priority(p)
             res == enter_exception(c1, bus, exception)
         IN  IF raised /\ res.entered
             THEN [serviced |-> exception, cpu |-> step_pipeline(res.cpu, bus)]
             ELSE ServicePending(c1, bus, p + 1)

\* the instruction Cpu::step executes when no exception was serviced
ExecuteCurrent(c, bus) ==
    LET instr == c.pipeline_instrs[1]
    IN  IF c.cpsr.state = "Arm"
        THEN [cpu |-> execute_arm(c, bus, instr), panic |-> FALSE, ovf |-> FALSE,
              exception |-> "None"]
        ELSE execute_thumb(c, bus, instr % HALF)

\* the result of a step that does nothing
Idle(c) ==
    [cpu |-> c, serviced |-> "None", entered |-> "None", executed |-> FALSE,
     panic |-> FALSE, ovf |-> FALSE]

\* the end of Cpu::step past the execution of the instruction: the pipeline
\* advances
AfterExecute(bus, serviced, exe) ==
    [cpu |-> step_pipeline(exe.cpu, bus), serviced |-> serviced,
     entered |-> IF serviced /= "None" THEN serviced ELSE exe.exception,
     executed |-> TRUE, panic |-> exe.panic, ovf |-> exe.ovf]

\* AfterLoop with the instruction executed also after an exception was serviced
AfterLoopFallsThrough(c, bus, svc) ==
    AfterExecute(bus, svc.serviced, ExecuteCurrent(svc.cpu, bus))

\* Cpu::step past the loop over the pending flags: it returns if the loop
\* serviced an exception, and executes the current instruction otherwise
AfterLoop(c, bus, svc) ==
    IF svc.serviced /= "None"
    THEN [Idle(svc.cpu) EXCEPT !.serviced = svc.serviced, !.entered = svc.serviced]
    ELSE AfterExecute(bus, "None", ExecuteCurrent(svc.cpu, bus))

\* step without the test of the run state
stepIgnoresRunState(c, bus) == AfterLoop(c, bus, ServicePending(c, bus, 0))

\* Cpu::step: the core after the step, the exception the loop serviced ("None"
\* when it serviced none), the exception entered by the loop or by the
\* instruction, whether an instruction was executed, and whether the instruction
\* panicked or overflowed the host arithmetic
step(c, bus) ==
    IF c.run_state /= "Running" THEN Idle(c)
    ELSE AfterLoop(c, bus, ServicePending(c, bus, 0))

-----------------------------------------------------------------------------
(* The ROM image behind the bus.                                           *)

\* the little-endian bytes Bus::write_word and Bus::write_hword store
MovR0Imm36 == <<36, 0, 160, 227>>    \* MOVAL R0,#0x24

BxR0 == <<16, 255, 47, 225>>         \* BXAL R0

ThumbMovR5Imm101 == <<101, 37>>      \* MOV R5,#101

ThumbCmpR5Imm101 == <<101, 45>>      \* CMP R5,#101

ThumbCmpR3Imm15 == <<15, 43>>        \* CMP R3,#15

ThumbSwi == <<0, 191>>               \* the software-interrupt encoding

\* 0x00..0x20: the exception vectors, each leading to a BX to the 16-bit code
\* at 0x24, which ends in a software interrupt
VectorRom ==
    MovR0Imm36 \o BxR0 \o MovR0Imm36 \o BxR0 \o MovR0Imm36 \o BxR0
        \o MovR0Imm36 \o MovR0Imm36 \o BxR0
        \o ThumbMovR5Imm101 \o ThumbCmpR5Imm101 \o ThumbCmpR3Imm15 \o ThumbSwi

Roms == {VectorRom}

MovR0Imm9 == <<9, 0, 160, 227>>      \* MOVAL R0,#(8 OR 1)

ThumbBxR5 == <<40, 71>>              \* BX R5

ThumbMovR1Imm33 == <<33, 33>>        \* MOV R1,#33

\* the bytes of a bus that were never written
Zeros(n) == [i \in 1..n |-> 0]

\* the bus of the unit test of Cpu::step: 110 bytes, 32-bit code at 0 that
\* branches to 9, 16-bit code at 8 that branches to 101, 16-bit code at 100
StepWorksRom ==
    MovR0Imm9 \o BxR0 \o ThumbMovR5Imm101 \o ThumbBxR5 \o Zeros(88)
        \o ThumbMovR1Imm33 \o Zeros(8)

-----------------------------------------------------------------------------
(* The video controller (video/mod.rs).                                    *)

FRAME_WIDTH == 240

FRAME_HEIGHT == 160

HORIZ_DOTS == 308

VERT_DOTS == 228

CYCLES_PER_DOT == 4

\* is_hblanking with the first blank dot taken for a visible one
is_hblankingLate(v) == v.x > FRAME_WIDTH

\* VideoController::is_hblanking, is_vblanking
is_hblanking(v) == v.x >= FRAME_WIDTH

is_vblanking(v) == v.y >= FRAME_HEIGHT

\* the body of the loop with the frame presented at the end of every visible
\* line
video_cyclePresentsEachLine(s, dispcnt) ==
    LET v == s.video
        visible == ~is_hblanking(v) /\ ~is_vblanking(v)
        fb_index == v.y * FRAME_WIDTH + v.x
        vram_index == fb_index + dispcnt.frame_select * 40960
        accum == v.cycle_accum + 1
        dot == accum >= CYCLES_PER_DOT
        x1 == IF dot THEN v.x + 1 ELSE v.x
        wrap == dot /\ x1 >= HORIZ_DOTS
        y1 == IF wrap THEN v.y + 1 ELSE v.y
    IN  IF s.panic THEN s
        ELSE IF visible /\ (\/ fb_index >= FRAME_WIDTH * FRAME_HEIGHT
                            \/ ~dispcnt.forced_blank /\ vram_index >= 98304)
        THEN [s EXCEPT !.panic = TRUE]
        ELSE [video |-> [x |-> IF wrap THEN 0 ELSE x1,
                         y |-> IF wrap /\ y1 >= VERT_DOTS THEN 0 ELSE y1,
                         cycle_accum |-> IF dot THEN 0 ELSE accum],
              presents |-> s.presents
                            + Bit(dot /\ x1 = FRAME_WIDTH /\ v.y < FRAME_HEIGHT),
              written |-> IF visible THEN s.written \cup {fb_index} ELSE s.written,
              panic |-> FALSE]

\* the body of the loop of VideoController::step, one cycle: the pixel under
\* the dot is written while the dot is visible (compute_rgb reads video memory
\* at the pixel's index in the selected frame unless the display is blanked;
\* either index out of range panics), the accumulator counts the cycle, and
\* every fourth cycle the dot advances, the frame is presented when the dot
\* leaves the last visible line, and the counters wrap. s carries the
\* controller, the number of frames presented and the frame-buffer indices
\* written so far in the call.
video_cycle(s, dispcnt) ==
    LET v == s.video
        visible == ~is_hblanking(v) /\ ~is_vblanking(v)
        fb_index == v.y * FRAME_WIDTH + v.x
        vram_index == fb_index + dispcnt.frame_select * 40960
        accum == v.cycle_accum + 1
        dot == accum >= CYCLES_PER_DOT
        x1 == IF dot THEN v.x + 1 ELSE v.x
        wrap == dot /\ x1 >= HORIZ_DOTS
        y1 == IF wrap THEN v.y + 1 ELSE v.y
    IN  IF s.panic THEN s
        ELSE IF visible /\ (\/ fb_index >= FRAME_WIDTH * FRAME_HEIGHT
                            \/ ~dispcnt.forced_blank /\ vram_index >= 98304)
        THEN [s EXCEPT !.panic = TRUE]
        ELSE [video |-> [x |-> IF wrap THEN 0 ELSE x1,
                         y |-> IF wrap /\ y1 >= VERT_DOTS THEN 0 ELSE y1,
                         cycle_accum |-> IF dot THEN 0 ELSE accum],
              presents |-> s.presents
                            + Bit(dot /\ x1 = FRAME_WIDTH /\ v.y = FRAME_HEIGHT - 1),
              written |-> IF visible THEN s.written \cup {fb_index} ELSE s.written,
              panic |-> FALSE]

\* VideoController::step: the loop, cycles times
RECURSIVE video_step(_, _, _)
video_step(s, dispcnt, cycles) ==
    IF cycles = 0 THEN s ELSE video_step(video_cycle(s, dispcnt), dispcnt, cycles - 1)

-----------------------------------------------------------------------------
(* The state machine: a core and the calls made on it.                     *)

\* the core as one value
Cpu ==
    [run_state |-> run_state, r |-> r, cpsr |-> cpsr, spsr |-> spsr,
     banks |-> banks, pipeline_instrs |-> pipeline_instrs,
     pending_exceptions |-> pending_exceptions]

\* the variables of the core take the fields of c
Becomes(c) ==
    /\ run_state' = c.run_state
    /\ r' = c.r
    /\ cpsr' = c.cpsr
    /\ spsr' = c.spsr
    /\ banks' = c.banks
    /\ pipeline_instrs' = c.pipeline_instrs
    /\ pending_exceptions' = c.pending_exceptions

\* what the last call was: the operation, the exception kind it named, and for a
\* step the exception its loop serviced, the exception it entered and whether it
\* executed an instruction
NoCall ==
    [op |-> "new", kind |-> "None", serviced |-> "None", entered |-> "None",
     executed |-> FALSE]

\* Cpu::new (Default) beside a bus: not running, every register and flag zero
Created(image) ==
    /\ run_state = "NotRunning"
    /\ r = [i \in 0..15 |-> 0]
    /\ cpsr = [signed |-> FALSE, zero |-> FALSE, carry |-> FALSE, overflow |-> FALSE,
               irq_disabled |-> FALSE, fiq_disabled |-> FALSE,
               state |-> "Arm", mode |-> "Supervisor"]
    /\ spsr = 0
    /\ banks = [sp |-> [b \in BankIds |-> 0], lr |-> [b \in BankIds |-> 0],
                spsr |-> [b \in BankIds |-> 0],
                high |-> [g \in {"usr", "fiq"} |-> [i \in 8..12 |-> 0]]]
    /\ pipeline_instrs = <<0, 0>>
    /\ pending_exceptions = [p \in 0..(NumExceptions - 1) |-> FALSE]
    /\ rom = image
    /\ panicked = FALSE
    /\ last = NoCall
    /\ dropped = {}
    /\ ops = 0
    /\ bios = [readable |-> FALSE, prefetch_addr |-> 0]
    /\ video = [x |-> 0, y |-> 0, cycle_accum |-> 0]

Init == \E image \in Roms : Created(image)

\* a call can be made: the process has not panicked, and the run is within its bound
CanCall == ~panicked /\ ops < MaxOps

\* cpu.reset(bus)
Reset ==
    /\ CanCall
    /\ Becomes(reset(Cpu, rom))
    /\ last' = [NoCall EXCEPT !.op = "reset"]
    /\ ops' = ops + 1
    /\ UNCHANGED <<rom, panicked, dropped, bios, video>>

\* cpu.raise_exception(exception)
Raise ==
    /\ CanCall
    /\ \E p \in 0..(NumExceptions - 1) :
        /\ Becomes(raise_exception(Cpu, from_priority(p)))
        /\ last' = [NoCall EXCEPT !.op = "raise", !.kind = from_priority(p)]
        /\ dropped' = dropped \ {from_priority(p)}
    /\ ops' = ops + 1
    /\ UNCHANGED <<rom, panicked, bios, video>>

\* for exception in Exception::iter() { cpu.raise_exception(exception); }
RECURSIVE RaiseFrom(_, _)
RaiseFrom(c, p) ==
    IF p >= NumExceptions THEN c
    ELSE RaiseFrom(raise_exception(c, from_priority(p)), p + 1)

RaiseEach ==
    /\ CanCall
    /\ Becomes(RaiseFrom(Cpu, 0))
    /\ last' = [NoCall EXCEPT !.op = "raise_each"]
    /\ dropped' = {}
    /\ ops' = ops + 1
    /\ UNCHANGED <<rom, panicked, bios, video>>

\* the interrupts a step of the running core drops: pending, masked, and reached by
\* the loop, which stops at the exception it services
DroppedBy(c, serviced) ==
    {e \in {"FastInterrupt", "Interrupt"} :
        /\ c.run_state = "Running"
        /\ c.pending_exceptions[priority(e)]
        /\ IsMasked(c.cpsr, e)
        /\ serviced /= "None" => priority(e) < priority(serviced)}

\* cpu.step(bus); a todo!() arm panics, and so does an overflow of the host
\* arithmetic in a build that checks it. A 32-bit word the step executes is one
\* of those this model decodes.
Step ==
    /\ CanCall
    /\ \E res \in {step(Cpu, rom)} :
        /\ res.executed /\ cpsr.state = "Arm" => ArmModelled(pipeline_instrs[1])
        /\ \E p \in (IF res.panic THEN {TRUE}
                     ELSE IF res.ovf THEN BOOLEAN ELSE {FALSE}) :
            /\ panicked' = p
            /\ IF p THEN UNCHANGED <<run_state, r, cpsr, spsr, banks,
                                     pipeline_instrs, pending_exceptions>>
                    ELSE Becomes(res.cpu)
        /\ last' = [NoCall EXCEPT !.op = "step", !.serviced = res.serviced,
                                  !.entered = res.entered,
                                  !.executed = res.executed]
        /\ dropped' = dropped \cup DroppedBy(Cpu, res.serviced)
    /\ ops' = ops + 1
    /\ UNCHANGED <<rom, bios, video>>

\* cpu.reg.cpsr.irq_disabled = false, cpu.reg.cpsr.fiq_disabled = false: the writes
\* to the current status register that re-enable an interrupt
ClearIrqDisabled ==
    /\ CanCall
    /\ cpsr.irq_disabled
    /\ cpsr' = [cpsr EXCEPT !.irq_disabled = FALSE]
    /\ last' = [NoCall EXCEPT !.op = "clear_irq_disabled"]
    /\ ops' = ops + 1
    /\ UNCHANGED <<run_state, r, spsr, banks, pipeline_instrs, pending_exceptions,
                   rom, panicked, dropped, bios, video>>

ClearFiqDisabled ==
    /\ CanCall
    /\ cpsr.fiq_disabled
    /\ cpsr' = [cpsr EXCEPT !.fiq_disabled = FALSE]
    /\ last' = [NoCall EXCEPT !.op = "clear_fiq_disabled"]
    /\ ops' = ops + 1
    /\ UNCHANGED <<run_state, r, spsr, banks, pipeline_instrs, pending_exceptions,
                   rom, panicked, dropped, bios, video>>

Next ==
    Reset \/ Raise \/ RaiseEach \/ Step \/ ClearIrqDisabled \/ ClearFiqDisabled

Spec == Init /\ [][Next]_vars

\* the 32-bit words the core executes are among those the model decodes
ArmWordsModelled ==
    run_state = "Running" /\ cpsr.state = "Arm" => ArmModelled(pipeline_instrs[1])

\* the same calls on a core created beside the bus of the unit test of Cpu::step
StepWorksInit == Created(StepWorksRom)

StepWorksSpec == StepWorksInit /\ [][Next]_vars

\* cpu.skip_bios(bus)
SkipBios ==
    /\ CanCall
    /\ Becomes(skip_bios(Cpu, rom))
    /\ last' = [NoCall EXCEPT !.op = "skip_bios"]
    /\ ops' = ops + 1
    /\ UNCHANGED <<rom, panicked, dropped, bios, video>>

\* the calls on a core whose start-up may also skip the BIOS
SkipBiosSpec == Init /\ [][Next \/ SkipBios]_vars

-----------------------------------------------------------------------------
(* Direct calls of the primitives, each on a core prepared as the unit     *)
(* tests prepare it: operands in r1 and r2, flags, PC and pipeline set.    *)

\* the operand values: small ones, shift amounts around 32, and the ends of the
\* signed and unsigned ranges
Operands == {0, 1, 9, 32, 36, -1, MinWord, -(MinWord + 1)}

\* the third operands of the add
AddCarries == {0, 1, -1}

\* a PC that is aligned over an empty pipeline, and one that is not over a
\* pipeline that holds prefetched instructions
Fixtures ==
    {[pc |-> 8, pipeline_instrs |-> <<0, 0>>],
     [pc |-> 39, pipeline_instrs |-> <<read_word(VectorRom, 0), read_word(VectorRom, 4)>>]}

\* 16-bit words: SWI 0 (1101 1111 0000 0000), the word decode_format takes for
\* the software interrupt (1011 1111 0000 0000), an unallocated word
\* (1110 1000 0000 0000), MOV R5,#101, the register forms LSL, LSR, ASR,
\* ROR and NEG R1,R2 (0100 00oo oo01 0001), and the immediate forms
\* LSL R3,R1,#0, LSR R3,R1,#0, ASR R3,R1,#0, LSR R1,R1,#0 and LSR R3,R1,#2
\* (000o oiii iisss ddd)
ThumbWords ==
    {223 * 256, 191 * 256, 232 * 256, 37 * 256 + 101,
     64 * 256 + 145, 64 * 256 + 209, 65 * 256 + 17, 65 * 256 + 209, 66 * 256 + 81,
     11, 8 * 256 + 11, 16 * 256 + 11, 8 * 256 + 9, 8 * 256 + 139}

LogicalOps ==
    {"execute_and_tst", "execute_bic", "execute_eor", "execute_orr", "execute_mvn",
     "execute_mul"}

UnitInit ==
    /\ run_state = "Running"
    /\ \E a, b \in Operands, f \in Fixtures :
        /\ r = [i \in 0..15 |->
                    CASE i = 1 -> a [] i = 2 -> b [] i = PC_INDEX -> f.pc [] OTHER -> 0]
        /\ pipeline_instrs = f.pipeline_instrs
    /\ \E z, cy, v \in BOOLEAN, st \in {"Arm", "Thumb"} :
        cpsr = [signed |-> FALSE, zero |-> z, carry |-> cy, overflow |-> v,
                irq_disabled |-> TRUE, fiq_disabled |-> TRUE,
                state |-> st, mode |-> "Supervisor"]
    /\ spsr = 0
    /\ banks = [sp |-> [b \in BankIds |-> 0], lr |-> [b \in BankIds |-> 0],
                spsr |-> [b \in BankIds |-> 0],
                high |-> [g \in {"usr", "fiq"} |-> [i \in 8..12 |-> 0]]]
    /\ pending_exceptions = [p \in 0..(NumExceptions - 1) |-> FALSE]
    /\ rom = VectorRom
    /\ panicked = FALSE
    /\ last = NoCall
    /\ dropped = {}
    /\ ops = 0
    /\ bios = [readable |-> FALSE, prefetch_addr |-> 0]
    /\ video = [x |-> 0, y |-> 0, cycle_accum |-> 0]

\* a call, on the prepared core, of a primitive that returns a value and may
\* update the status register; update_cond and c are the arguments beside r1, r2
UnitCall(name, update_cond, c, res) ==
    /\ last.op = "new"
    /\ cpsr' = res.cpsr
    /\ last' = [op |-> name, update_cond |-> update_cond, c |-> c, value |-> res.value]
    /\ UNCHANGED <<run_state, r, spsr, banks, pipeline_instrs, pending_exceptions,
                   rom, panicked, dropped, ops, bios, video>>

CallAdd ==
    \E u \in BOOLEAN, c \in AddCarries :
        UnitCall("execute_add_impl", u, c, execute_add_impl(cpsr, u, r[1], r[2], c))

CallSub ==
    \E u \in BOOLEAN, c \in {0, 1} :
        UnitCall("execute_sub_impl", u, c, execute_sub_impl(cpsr, u, r[1], r[2], c))

CallAddCmn ==
    \E u \in BOOLEAN :
        UnitCall("execute_add_cmn", u, 0, execute_add_cmn(cpsr, u, r[1], r[2]))

CallSubCmp ==
    \E u \in BOOLEAN :
        UnitCall("execute_sub_cmp", u, 0, execute_sub_cmp(cpsr, u, r[1], r[2]))

CallAdc ==
    \E u \in BOOLEAN :
        UnitCall("execute_adc", u, Bit(cpsr.carry), execute_adc(cpsr, u, r[1], r[2]))

CallSbc ==
    \E u \in BOOLEAN :
        UnitCall("execute_sbc", u, Bit(~cpsr.carry), execute_sbc(cpsr, u, r[1], r[2]))

\* the shift amount is a u8
CallLsl == UnitCall("execute_lsl", TRUE, 0, execute_lsl(cpsr, r[1], r[2] % 256))

CallLsr == UnitCall("execute_lsr", TRUE, 0, execute_lsr(cpsr, r[1], r[2] % 256))

Logical(op, sr, a, b) ==
    CASE op = "execute_and_tst" -> execute_and_tst(sr, a, b)
      [] op = "execute_bic" -> execute_bic(sr, a, b)
      [] op = "execute_eor" -> execute_eor(sr, a, b)
      [] op = "execute_orr" -> execute_orr(sr, a, b)
      [] op = "execute_mvn" -> execute_mvn(sr, a)
      [] op = "execute_mul" -> execute_mul(sr, a, b)

CallLogical ==
    \E op \in LogicalOps : UnitCall(op, TRUE, 0, Logical(op, cpsr, r[1], r[2]))

\* cpu.execute_bx(bus, r1)
CallBx ==
    /\ last.op = "new"
    /\ Becomes(execute_bx(Cpu, rom, r[1]))
    /\ last' = [NoCall EXCEPT !.op = "execute_bx"]
    /\ UNCHANGED <<rom, panicked, dropped, ops, bios, video>>

\* cpu.reload_pipeline(bus)
CallReload ==
    /\ last.op = "new"
    /\ Becomes(reload_pipeline(Cpu, rom))
    /\ last' = [NoCall EXCEPT !.op = "reload_pipeline"]
    /\ UNCHANGED <<rom, panicked, dropped, ops, bios, video>>

\* cpu.execute_thumb(instr), in the 16-bit state
CallExecuteThumb ==
    /\ last.op = "new"
    /\ cpsr.state = "Thumb"
    /\ \E instr \in ThumbWords :
        \E res \in {execute_thumb(Cpu, rom, instr)} :
            /\ \E p \in (IF res.panic THEN {TRUE}
                         ELSE IF res.ovf THEN BOOLEAN ELSE {FALSE}) :
                /\ panicked' = p
                /\ IF p THEN UNCHANGED <<run_state, r, cpsr, spsr, banks,
                                         pipeline_instrs, pending_exceptions>>
                        ELSE Becomes(res.cpu)
            /\ last' = [op |-> "execute_thumb", instr |-> instr,
                        entered |-> res.exception]
    /\ UNCHANGED <<rom, dropped, ops, bios, video>>

\* bus.write_word(addr, r1) and bus.write_hword(addr, r1 as u16) on the bus as
\* a mutable byte slice; the addresses written are aligned, unaligned, the last
\* word of the bus, and the last halfword, where a word runs past the end
CallWrite ==
    /\ last.op = "new"
    /\ \E addr \in {0, 5, Len(VectorRom) - 4, Len(VectorRom) - 2}, width \in {2, 4} :
        \E b \in {IF width = 4
                  THEN write_word([mem |-> rom, panic |-> FALSE], addr, r[1])
                  ELSE write_hword([mem |-> rom, panic |-> FALSE], addr, Lo(r[1]))} :
            /\ rom' = b.mem
            /\ panicked' = b.panic
            /\ last' = [op |-> "write", addr |-> addr, width |-> width]
    /\ UNCHANGED <<run_state, r, cpsr, spsr, banks, pipeline_instrs,
                   pending_exceptions, dropped, ops, bios, video>>

\* bus.read_byte(addr) on each implementation of Bus: the cartridge and the
\* byte slice over the small image, and the BIOS readable or protected
ReadByteOn(bus, readable, prefetch_addr, addr) ==
    CASE bus = "Cartridge" -> [value |-> read_byte(rom, addr), panic |-> FALSE]
      [] bus = "Slice" -> slice_read_byte(rom, addr)
      [] bus = "Bios" ->
            bios_read_byte([rom |-> BiosRom, readable |-> readable,
                            prefetch_addr |-> prefetch_addr], addr)

\* the addresses read are inside every bus, at and beyond the end of the small
\* bus, the last byte of the BIOS, the first address beyond it, and 0xFFFFFFFF
CallReadByte ==
    /\ last.op = "new"
    /\ \E bus \in {"Cartridge", "Slice", "Bios"}, readable \in BOOLEAN,
          prefetch_addr \in {0, 64 * 256},
          addr \in {0, 5, Len(VectorRom), 64 * 256 - 1, 64 * 256, -1} :
        \E res \in {ReadByteOn(bus, readable, prefetch_addr, addr)} :
            /\ panicked' = res.panic
            /\ last' = [op |-> "read_byte", bus |-> bus, readable |-> readable,
                        prefetch_addr |-> prefetch_addr, addr |-> addr,
                        value |-> res.value]
    /\ UNCHANGED <<run_state, r, cpsr, spsr, banks, pipeline_instrs,
                   pending_exceptions, rom, dropped, ops, bios, video>>

UnitNext ==
    \/ CallAdd \/ CallSub \/ CallAddCmn \/ CallSubCmp \/ CallAdc \/ CallSbc
    \/ CallLsl \/ CallLsr \/ CallLogical
    \/ CallBx \/ CallReload \/ CallExecuteThumb
    \/ CallWrite \/ CallReadByte

UnitSpec == UnitInit /\ [][UnitNext]_vars

\* cpu.reg.cpsr.carry = carry; cpu.execute_lsl(value, offset), and the same for
\* the other three shifts, for every offset a u8 holds; the values are the ends
\* of the ranges, single bits at either end and in the middle, and mixed patterns
CallShift ==
    /\ last.op = "new"
    /\ \E op \in {"execute_lsl", "execute_lsr", "execute_asr", "execute_ror"},
          value \in {0, 1, -1, MinWord, -(MinWord + 1), MinWord + 1, HALF,
                     FromHalves(21845, 21845), FromHalves(43690, 43690),
                     FromHalves(4660, 22136), FromHalves(57005, 48879)},
          offset \in 0..255, carry \in BOOLEAN :
        \E res \in {LET sr == [cpsr EXCEPT !.carry = carry]
                    IN  CASE op = "execute_lsl" -> execute_lsl(sr, value, offset)
                          [] op = "execute_lsr" -> execute_lsr(sr, value, offset)
                          [] op = "execute_asr" -> execute_asr(sr, value, offset)
                          [] op = "execute_ror" -> execute_ror(sr, value, offset)} :
            /\ cpsr' = res.cpsr
            /\ last' = [op |-> op, value |-> value, offset |-> offset,
                         carry |-> carry, result |-> res.value]
    /\ UNCHANGED <<run_state, r, spsr, banks, pipeline_instrs,
                   pending_exceptions, rom, panicked, dropped, ops,
                   bios, video>>

ShiftSpec == Init /\ [][CallShift]_vars

\* bios.reset(), bios.update_protection(prefetch_addr) and bios.read_byte(addr)
\* on the BIOS beside the core. The prefetch addresses are the first and the
\* last word of the ROM, an unaligned address, the first address beyond the
\* ROM, the start of the cartridge and 0xFFFFFFFF; the addresses read are the
\* four bytes of a word, bytes of other words, and addresses beyond the ROM.
CallBios ==
    /\ ~panicked
    /\ \/ /\ bios' = bios_reset(bios)
          /\ last' = [op |-> "bios_reset"]
          /\ UNCHANGED panicked
       \/ \E prefetch_addr \in
                {<<>>, <<0>>, <<5>>, <<1029>>, <<64 * 256 - 1>>, <<64 * 256>>,
                 <<FromHalves(2048, 6)>>, <<-1>>} :
            /\ bios' = update_protection(bios, prefetch_addr)
            /\ last' = [op |-> "update_protection", prefetch_addr |-> prefetch_addr]
            /\ UNCHANGED panicked
       \/ \E addr \in {0, 1, 2, 3, 6, 64 * 256 - 1, 64 * 256, -1} :
            \E res \in {bios_read_byte([rom |-> BiosRom] @@ bios, addr)} :
                /\ panicked' = res.panic
                /\ last' = [op |-> "bios_read_byte", addr |-> addr,
                             value |-> res.value]
                /\ UNCHANGED bios
    /\ UNCHANGED <<run_state, r, cpsr, spsr, banks, pipeline_instrs,
                   pending_exceptions, rom, dropped, ops, video>>

BiosSpec == Init /\ [][CallBios]_vars

\* video.step(screen, cycles) on the controller beside the core, with the
\* display control register as the bus left it: either frame selected, the
\* display blanked or not
VideoStep ==
    /\ ~panicked
    /\ \E cycles \in 1..MaxCycles, frame_select \in {0, 1}, forced_blank \in BOOLEAN :
        \E res \in {video_step([video |-> video, presents |-> 0, written |-> {},
                                panic |-> FALSE],
                               [frame_select |-> frame_select,
                                forced_blank |-> forced_blank], cycles)} :
            /\ video' = res.video
            /\ panicked' = res.panic
            /\ last' = [op |-> "video_step", presents |-> res.presents,
                         written |-> res.written]
    /\ UNCHANGED <<run_state, r, cpsr, spsr, banks, pipeline_instrs,
                   pending_exceptions, rom, dropped, ops, bios>>

VideoSpec == Init /\ [][VideoStep]_vars

\* decode_format(instr) for each u16, beside a new core
CallDecode ==
    /\ last.op = "new"
    /\ \E instr \in 0..(HALF - 1) :
        last' = [op |-> "decode_format", instr |-> instr,
                 format |-> decode_format(instr)]
    /\ UNCHANGED <<run_state, r, cpsr, spsr, banks, pipeline_instrs,
                   pending_exceptions, rom, panicked, dropped, ops,
                   bios, video>>

DecodeSpec == Init /\ [][CallDecode]_vars

-----------------------------------------------------------------------------
(* Vocabulary of the properties.                                           *)

\* the transition is a call of step / of reset
StepTaken == ops' = ops + 1 /\ last'.op = "step"

ResetTaken == ops' = ops + 1 /\ last'.op = "reset"

\* a step of the running core that ran to completion
RunningStep == StepTaken /\ run_state = "Running" /\ ~panicked'

\* the core after the transition
CpuAfter ==
    [run_state |-> run_state', r |-> r', cpsr |-> cpsr', spsr |-> spsr',
     banks |-> banks', pipeline_instrs |-> pipeline_instrs',
     pending_exceptions |-> pending_exceptions']

\* the documented priority order, highest first, and the documented table
PriorityOrder ==
    <<"Reset", "DataAbort", "FastInterrupt", "Interrupt", "PrefetchAbort",
      "SoftwareInterrupt", "UndefinedInstr">>

Priorities == 0..6

KindAt(p) == PriorityOrder[p + 1]

RankOf(e) == CHOOSE p \in Priorities : KindAt(p) = e

DocumentedVector ==
    [Reset |-> 0, UndefinedInstr |-> 4, SoftwareInterrupt |-> 8, PrefetchAbort |-> 12,
     DataAbort |-> 16, Interrupt |-> 24, FastInterrupt |-> 28]

DocumentedMode ==
    [Reset |-> "Supervisor", SoftwareInterrupt |-> "Supervisor",
     PrefetchAbort |-> "Abort", DataAbort |-> "Abort", Interrupt |-> "Interrupt",
     FastInterrupt |-> "FastInterrupt", UndefinedInstr |-> "UndefinedInstr"]

\* the flag of priority p is pending and its exception is masked / is not masked
MaskedAt(p) ==
    \/ KindAt(p) = "Interrupt" /\ cpsr.irq_disabled
    \/ KindAt(p) = "FastInterrupt" /\ cpsr.fiq_disabled

PendingUnmasked == {p \in Priorities : pending_exceptions[p] /\ ~MaskedAt(p)}

Lowest(S) == CHOOSE x \in S : \A y \in S : x <= y

\* the saved status register holds a status with the 16-bit state bit set
SavedFromThumb == (spsr \div 32) % 2 = 1

-----------------------------------------------------------------------------
(* C1: a step of the running core clears the pending flags in priority     *)
(* order up to and including the first one that is pending and not masked, *)
(* services exactly that exception and leaves the flags below it as they   *)
(* were; with none pending and unmasked it services nothing and clears     *)
(* every flag.  At most one exception is entered in a step.                *)
C1_ServicesHighestUnmasked ==
    [][RunningStep =>
        /\ IF PendingUnmasked = {}
           THEN /\ last'.serviced = "None"
                /\ \A p \in Priorities : ~pending_exceptions'[p]
           ELSE LET m == Lowest(PendingUnmasked)
                IN  /\ last'.serviced = KindAt(m)
                    /\ \A p \in Priorities :
                        pending_exceptions'[p] = (pending_exceptions[p] /\ p > m)
        /\ last'.serviced /= "None" =>
                ~last'.executed /\ last'.entered = last'.serviced]_vars

\* a masked Interrupt was passed over and the lower SoftwareInterrupt serviced,
\* with UndefinedInstr left pending
C1_Witness ==
    /\ last.op = "step"
    /\ last.serviced = "SoftwareInterrupt"
    /\ "Interrupt" \in dropped
    /\ pending_exceptions[6]

(* C2: after the step that enters an exception the mode is the documented  *)
(* entry mode, the state is the 32-bit one, interrupt-disable is set,      *)
(* fast-interrupt-disable is its old value or-ed with (kind is Reset or    *)
(* FastInterrupt), and PC is the documented vector plus 8.                 *)
C2_EntryState ==
    [][RunningStep /\ last'.entered /= "None" =>
        LET e == last'.entered
        IN  /\ cpsr'.mode = DocumentedMode[e]
            /\ cpsr'.state = "Arm"
            /\ cpsr'.irq_disabled
            /\ cpsr'.fiq_disabled
                    = (cpsr.fiq_disabled \/ e \in {"Reset", "FastInterrupt"})
            /\ r'[15] = DocumentedVector[e] + 8]_vars

C2_Witness ==
    /\ last.op = "step"
    /\ last.entered = "Interrupt"
    /\ ~cpsr.fiq_disabled

(* C3: for every exception other than Reset that a step enters, from       *)
(* either instruction-set state, the saved status register of the entered  *)
(* mode is the whole status register before the entry and its link         *)
(* register is the PC before the entry minus 4, wrapping.                  *)
C3_SavedStatusAndLink ==
    [][RunningStep /\ last'.entered \notin {"None", "Reset"} =>
        /\ spsr' = StatusBits(cpsr)
        /\ r'[14] = wrapping_sub(r[15], 4)]_vars

\* an exception entered from the 16-bit state
C3_Witness ==
    /\ last.op = "step"
    /\ last.entered = "DataAbort"
    /\ SavedFromThumb

\* the core before the transition with the flag of priority p not pending
CpuWithout(p) == [Cpu EXCEPT !.pending_exceptions[p] = FALSE]

\* the loop of the step reaches the flag of priority p: no exception above it is
\* pending and not masked
Reached(p) == \A q \in Priorities : q < p => q \notin PendingUnmasked

(* C4, as stated: whenever Interrupt is pending with interrupt-disable set *)
(* (or FastInterrupt with fast-interrupt-disable set), the step clears the *)
(* flag without entering the exception and ends in the state the same step *)
(* reaches from the same state with the flag not pending.                  *)
C4_AsStated ==
    [][RunningStep =>
        \A p \in {2, 3} :
            pending_exceptions[p] /\ MaskedAt(p) =>
                /\ ~pending_exceptions'[p]
                /\ last'.serviced /= KindAt(p)
                /\ CpuAfter = step(CpuWithout(p), rom).cpu]_vars

(* C4, amended: the same, for the steps whose loop reaches the flag, which *)
(* are those in which no exception of higher priority is entered.          *)
C4_MaskedInterruptDropped ==
    [][RunningStep =>
        \A p \in {2, 3} :
            pending_exceptions[p] /\ MaskedAt(p) /\ Reached(p) =>
                /\ ~pending_exceptions'[p]
                /\ last'.serviced /= KindAt(p)
                /\ CpuAfter = step(CpuWithout(p), rom).cpu]_vars

\* both interrupts were pending and masked, and the step executed its instruction
C4_Witness ==
    /\ last.op = "step"
    /\ last.executed
    /\ dropped = {"FastInterrupt", "Interrupt"}
    /\ ~pending_exceptions[2] /\ ~pending_exceptions[3]

(* C5: an Interrupt or FastInterrupt that a step dropped because it was    *)
(* masked is not serviced by any later step, whatever happens to the       *)
(* disable flags, until raise_exception is called for it again.            *)
C5_DroppedNeverServiced ==
    [][StepTaken => last'.serviced \notin dropped /\ last'.entered \notin dropped]_vars

\* a step taken with a dropped Interrupt and interrupt-disable cleared again
C5_Witness ==
    /\ last.op = "step"
    /\ last.executed
    /\ "Interrupt" \in dropped
    /\ ~cpsr.irq_disabled

(* C6: a step that services an exception executes no instruction: r0..r7   *)
(* (and r8..r12 unless FastInterrupt mode is entered or left) and the four *)
(* condition flags are unchanged, and every pending flag of lower priority *)
(* than the serviced exception is left as it was.                          *)
C6_EntryExecutesNothing ==
    [][RunningStep /\ last'.serviced /= "None" =>
        /\ ~last'.executed
        /\ \A i \in 0..12 :
            (i <= 7 \/ "FastInterrupt" \notin {cpsr.mode, cpsr'.mode}) => r'[i] = r[i]
        /\ cpsr'.signed = cpsr.signed /\ cpsr'.zero = cpsr.zero
        /\ cpsr'.carry = cpsr.carry /\ cpsr'.overflow = cpsr.overflow
        /\ \A p \in Priorities :
            p > RankOf(last'.serviced) =>
                pending_exceptions'[p] = pending_exceptions[p]]_vars

\* DataAbort serviced straight after reset, when the instruction in the current
\* slot was MOV R0,#0x24: r0 is still 0 and SoftwareInterrupt is still pending
C6_Witness ==
    /\ last.op = "step"
    /\ last.serviced = "DataAbort"
    /\ r[14] = 4
    /\ r[0] = 0
    /\ pending_exceptions[5]

(* C7, as stated: a step of the running core with exceptions pending       *)
(* services the one of highest priority among them and leaves the others   *)
(* pending, so that consecutive steps enter every one of them in order.    *)
C7_AsStated ==
    [][RunningStep =>
        LET S == {p \in Priorities : pending_exceptions[p]}
        IN  Cardinality(S) >= 2 =>
                /\ last'.serviced = KindAt(Lowest(S))
                /\ \A p \in Priorities :
                    pending_exceptions'[p] = (p \in S /\ p /= Lowest(S))]_vars

(* C7, amended: of the exceptions pending at the same time, consecutive    *)
(* steps service, one per step and in priority order, those that are not   *)
(* masked when the loop reaches them; a pending exception stays pending    *)
(* while a step services one of higher priority; an Interrupt or           *)
(* FastInterrupt that is masked when reached is dropped without entry.     *)
C7_ServicedInOrder ==
    [][RunningStep =>
        /\ \A p \in Priorities :
            pending_exceptions[p] =>
                IF ~Reached(p)
                THEN pending_exceptions'[p] /\ last'.serviced /= KindAt(p)
                ELSE IF MaskedAt(p)
                THEN ~pending_exceptions'[p] /\ last'.serviced /= KindAt(p)
                ELSE ~pending_exceptions'[p] /\ last'.serviced = KindAt(p)
        /\ last.op = "step" /\ last.serviced /= "None" /\ last'.serviced /= "None"
                => RankOf(last'.serviced) > RankOf(last.serviced)]_vars

\* all seven raised after reset and five steps taken: Reset, DataAbort,
\* PrefetchAbort, SoftwareInterrupt and UndefinedInstr were entered in turn, and
\* the two interrupts, masked since reset, were dropped
C7_Witness ==
    /\ last.op = "step"
    /\ last.serviced = "UndefinedInstr"
    /\ r[14] = 12
    /\ banks.lr["svc"] = 16
    /\ banks.lr["abt"] = 20
    /\ dropped = {"FastInterrupt", "Interrupt"}

(* C8: reset leaves the four condition flags as they were and the link     *)
(* register of Supervisor mode, the mode it enters, at 0.                  *)
C8_ResetKeepsFlags ==
    [][ResetTaken =>
        /\ cpsr'.signed = cpsr.signed /\ cpsr'.zero = cpsr.zero
        /\ cpsr'.carry = cpsr.carry /\ cpsr'.overflow = cpsr.overflow
        /\ cpsr'.mode = "Supervisor"
        /\ r'[14] = 0]_vars

\* a reset of a core whose zero and carry flags were set
C8_Witness == last.op = "reset" /\ cpsr.zero /\ cpsr.carry

(* C9: after reset the core is running, no exception is pending, the mode  *)
(* is Supervisor, the state the 32-bit one, both disable flags are set and *)
(* PC is 8.                                                                *)
C9_AfterReset ==
    last.op = "reset" =>
        /\ run_state = "Running"
        /\ \A p \in Priorities : ~pending_exceptions[p]
        /\ cpsr.mode = "Supervisor"
        /\ cpsr.state = "Arm"
        /\ cpsr.irq_disabled /\ cpsr.fiq_disabled
        /\ r[15] = 8

\* a reset of a core that was running in the 16-bit state
C9_Witness == last.op = "reset" /\ SavedFromThumb

(* C10: while the core is not running a step changes nothing: no register, *)
(* no status bit, neither pipeline slot, no pending flag.                  *)
C10_StepNotRunning ==
    [][StepTaken /\ run_state = "NotRunning" =>
        /\ CpuAfter = Cpu
        /\ ~last'.executed /\ last'.serviced = "None"
        /\ UNCHANGED <<rom, panicked>>]_vars

\* a step of a core that was never reset, with DataAbort pending
C10_Witness ==
    /\ last.op = "step"
    /\ run_state = "NotRunning"
    /\ pending_exceptions[1]

-----------------------------------------------------------------------------
(* C11: raise_exception(kind), in any run state, sets the pending flag of  *)
(* that kind and changes nothing else (the other six flags, registers,     *)
(* status, pipeline, run state), and a second call changes nothing.        *)
C11_RaiseSetsOneFlag ==
    [][ops' = ops + 1 /\ last'.op = "raise" =>
        /\ CpuAfter = [Cpu EXCEPT !.pending_exceptions[RankOf(last'.kind)] = TRUE]
        /\ raise_exception(CpuAfter, last'.kind) = CpuAfter
        /\ UNCHANGED <<rom, panicked>>]_vars

\* Interrupt raised on a running core that also has DataAbort pending
C11_Witness ==
    /\ last.op = "raise"
    /\ last.kind = "Interrupt"
    /\ run_state = "Running"
    /\ pending_exceptions[1] /\ pending_exceptions[3]

-----------------------------------------------------------------------------
(* C12: a branch-and-exchange to a target with bit 0 set leaves the core   *)
(* in the 16-bit state with the PC at the target with bit 0 cleared, one   *)
(* with bit 0 clear leaves it in the 32-bit state with the PC at the       *)
(* target with its low two bits cleared, and in both cases the pipeline is *)
(* reloaded from there (the next slot fetched, the PC one width further).  *)
C12_AsStated ==
    [][last'.op = "execute_bx" =>
        IF r[1] % 2 = 1
        THEN /\ cpsr'.state = "Thumb"
             /\ pipeline_instrs'[2] = read_hword(rom, ClearLow(r[1], 2))
             /\ r'[PC_INDEX] = wrapping_add(ClearLow(r[1], 2), 2)
        ELSE /\ cpsr'.state = "Arm"
             /\ pipeline_instrs'[2] = read_word(rom, ClearLow(r[1], 4))
             /\ r'[PC_INDEX] = wrapping_add(ClearLow(r[1], 4), 4)]_vars

-----------------------------------------------------------------------------
(* C13: after a step that executes a branch-and-exchange to a target t     *)
(* with bit 0 set, the core is in the 16-bit state with PC = (t & ~1) + 4  *)
(* and the instruction the next step executes is the halfword at (t & ~1): *)
(* after MOV R0,#9; BX R0 the core is in the 16-bit state with PC = 12.    *)
C13_AsStated ==
    [][/\ StepTaken /\ last'.executed /\ ~panicked'
       /\ cpsr.state = "Arm"
       /\ IsArmBx(pipeline_instrs[1])
       /\ ConditionPasses(cpsr, Hi(pipeline_instrs[1]) \div 4096)
       /\ r[Lo(pipeline_instrs[1]) % 16] % 2 = 1
       => /\ cpsr'.state = "Thumb"
          /\ r'[PC_INDEX] = wrapping_add(ClearLow(r[Lo(pipeline_instrs[1]) % 16], 2), 4)
          /\ pipeline_instrs'[1] =
                read_hword(rom, ClearLow(r[Lo(pipeline_instrs[1]) % 16], 2))]_vars

-----------------------------------------------------------------------------
(* C14: immediately after reload_pipeline the current slot holds 0, the    *)
(* next slot holds the instruction fetched at the PC aligned to the        *)
(* instruction width, and the PC is that aligned address plus the width.   *)
C14_AsStated ==
    [][last'.op = "reload_pipeline" =>
        /\ pipeline_instrs'[1] = 0
        /\ pipeline_instrs'[2] =
            (IF cpsr.state = "Thumb"
             THEN read_hword(rom, ClearLow(r[PC_INDEX], 2))
             ELSE read_word(rom, ClearLow(r[PC_INDEX], 4)))
        /\ r'[PC_INDEX] =
            wrapping_add(ClearLow(r[PC_INDEX], instr_size(cpsr.state)),
                         instr_size(cpsr.state))]_vars

-----------------------------------------------------------------------------
\* the instruction at an address as the pipeline fetches it in the current
\* state: a halfword in the 16-bit state, a word in the 32-bit state
InstrAt(addr) ==
    IF cpsr.state = "Thumb" THEN read_hword(rom, addr) ELSE read_word(rom, addr)

(* C15: between calls, while the core is running, the PC is a multiple of  *)
(* the current instruction width w, the next slot holds the instruction at *)
(* PC - w and the current slot holds the instruction at PC - 2w.           *)
C15_PipelineAhead ==
    run_state = "Running" =>
        /\ r[PC_INDEX] % instr_size(cpsr.state) = 0
        /\ pipeline_instrs[2] = InstrAt(wrapping_sub(r[PC_INDEX], instr_size(cpsr.state)))
        /\ pipeline_instrs[1] =
            InstrAt(wrapping_sub(r[PC_INDEX], 2 * instr_size(cpsr.state)))

\* a step in the 16-bit state has executed MOV R5,#101 at 0x24: the PC is at
\* 0x2A, and the slots hold the two halfwords before it
C15_Witness ==
    /\ run_state = "Running" /\ ~panicked
    /\ last.op = "step" /\ last.executed
    /\ cpsr.state = "Thumb"
    /\ r[PC_INDEX] = 42
    /\ r[5] = 101
    /\ pipeline_instrs = <<read_hword(rom, 38), read_hword(rom, 40)>>

-----------------------------------------------------------------------------
\* unsigned x < y on words
ULess(x, y) == IF (x < 0) = (y < 0) THEN x < y ELSE y < 0

\* the signed sum s of x and y is out of range: the operands have one sign and
\* the sum has the other
SignedOverflow(x, y, s) == (x < 0) = (y < 0) /\ (s < 0) /= (x < 0)

\* (a + b + c) mod 2^32, summed in 16-bit columns
Sum3(a, b, c) ==
    FromHalves((Hi(a) + Hi(b) + Hi(c) + ((Lo(a) + Lo(b) + Lo(c)) \div HALF)) % HALF,
               (Lo(a) + Lo(b) + Lo(c)) % HALF)

\* the status register after an addition of a, b, c that updates the flags
AddStatus(sr, a, b, c) ==
    [sr EXCEPT
        !.overflow = \/ SignedOverflow(a, b, Sum3(a, b, 0))
                     \/ SignedOverflow(Sum3(a, b, 0), c, Sum3(a, b, c)),
        !.carry = ULess(Sum3(a, b, 0), a) \/ ULess(Sum3(a, b, c), Sum3(a, b, 0)),
        !.zero = Sum3(a, b, c) = 0,
        !.signed = Sum3(a, b, c) < 0]

(* C16: the addition primitive returns (a + b + c) mod 2^32. When it       *)
(* updates the flags, overflow is set exactly when the signed sum a + b    *)
(* overflows or adding c to the wrapped partial sum overflows, carry       *)
(* exactly when the unsigned sum exceeds 0xFFFFFFFF, zero and negative     *)
(* come from the result, and nothing else in the status register changes;  *)
(* when it does not update the flags the status register is unchanged.     *)
C16_Add ==
    [][last'.op \in {"execute_add_impl", "execute_add_cmn", "execute_adc"} =>
        /\ last'.value = Sum3(r[1], r[2], last'.c)
        /\ cpsr' = IF last'.update_cond THEN AddStatus(cpsr, r[1], r[2], last'.c)
                   ELSE cpsr]_vars

\* 0x7FFFFFFF + 0 + 1 with the flags updated: only the second partial sum
\* overflows
C16_Witness ==
    /\ last.op = "execute_add_impl" /\ last.update_cond
    /\ r[1] = -(MinWord + 1) /\ r[2] = 0 /\ last.c = 1
    /\ last.value = MinWord
    /\ cpsr.overflow /\ ~cpsr.carry /\ cpsr.signed /\ ~cpsr.zero

-----------------------------------------------------------------------------
(* C17: the subtraction primitive, for c in {0, 1}, returns                *)
(* (a - b - c) mod 2^32 with the flags of the addition of a, -b and -c,    *)
(* except that overflow is also set when the flags are updated and         *)
(* b = 0x80000000; when the flags are not updated, overflow (and the rest  *)
(* of the status register) is unchanged.                                   *)
C17_Subtract ==
    [][last'.op \in {"execute_sub_impl", "execute_sub_cmp", "execute_sbc"} =>
        /\ last'.c \in {0, 1}
        /\ last'.value = wrapping_sub(wrapping_sub(r[1], r[2]), last'.c)
        /\ cpsr' =
            IF last'.update_cond
            THEN [AddStatus(cpsr, r[1], wrapping_neg(r[2]), wrapping_neg(last'.c))
                    EXCEPT !.overflow = @ \/ r[2] = MinWord]
            ELSE cpsr]_vars

\* 0 - 0x80000000 - 0 with the flags updated: the addition of 0 and the
\* wrapped negation does not overflow, and overflow is set all the same
C17_Witness ==
    /\ last.op = "execute_sub_impl" /\ last.update_cond
    /\ r[1] = 0 /\ r[2] = MinWord /\ last.c = 0
    /\ last.value = MinWord
    /\ ~SignedOverflow(0, wrapping_neg(MinWord), MinWord)
    /\ cpsr.overflow /\ cpsr.signed /\ ~cpsr.carry

-----------------------------------------------------------------------------
(* C18: a left shift by 0 returns its operand and leaves carry unchanged,  *)
(* recomputing only zero and negative; a logical right shift by 0 gives    *)
(* the result and the flags of a logical right shift by 32: result 0,      *)
(* carry equal to bit 31 of the operand.                                   *)
C18_ShiftByZero ==
    [][/\ last'.op = "execute_lsl" /\ r[2] % 256 = 0 =>
            /\ last'.value = r[1]
            /\ cpsr' = [cpsr EXCEPT !.zero = r[1] = 0, !.signed = r[1] < 0]
       /\ last'.op = "execute_lsr" /\ r[2] % 256 = 0 =>
            /\ last'.value = 0
            /\ cpsr' = [cpsr EXCEPT !.carry = r[1] < 0, !.zero = TRUE,
                                    !.signed = FALSE]
            /\ execute_lsr(cpsr, r[1], 32) = [value |-> last'.value, cpsr |-> cpsr']
      ]_vars

\* a logical right shift of 0x80000000 by 0, started with carry clear or set:
\* the result is 0 and carry is set
C18_Witness ==
    /\ last.op = "execute_lsr"
    /\ r[1] = MinWord /\ r[2] = 0
    /\ last.value = 0
    /\ cpsr.carry /\ cpsr.zero

\* a left shift of 0xFFFFFFFF by 0 started with carry clear
C18_WitnessLeft ==
    /\ last.op = "execute_lsl"
    /\ r[1] = -1 /\ r[2] = 0
    /\ last.value = -1
    /\ ~cpsr.carry /\ cpsr.signed

-----------------------------------------------------------------------------
\* what each logical operation and multiply computes from a and b, bit by bit
\* on the halves of the words
RECURSIVE BitsOf(_, _, _, _)
BitsOf(op, a, b, n) ==
    IF n = 0 THEN 0
    ELSE 2 * BitsOf(op, a \div 2, b \div 2, n - 1)
         + (CASE op = "execute_and_tst" -> (IF a % 2 = 1 /\ b % 2 = 1 THEN 1 ELSE 0)
              [] op = "execute_bic" -> (IF a % 2 = 1 /\ b % 2 = 0 THEN 1 ELSE 0)
              [] op = "execute_eor" -> (IF a % 2 /= b % 2 THEN 1 ELSE 0)
              [] op = "execute_orr" -> (IF a % 2 = 1 \/ b % 2 = 1 THEN 1 ELSE 0)
              [] op = "execute_mvn" -> 1 - (a % 2))

\* a times a byte k, mod 2^32
TimesByte(a, k) ==
    FromHalves((Hi(a) * k + ((Lo(a) * k) \div HALF)) % HALF, (Lo(a) * k) % HALF)

\* a times b mod 2^32: a times each byte of b, shifted to the place of the byte
Product(a, b) ==
    wrapping_add(
        wrapping_add(TimesByte(a, Byte(b, 0)), Shl(TimesByte(a, Byte(b, 1)), 8)),
        wrapping_add(Shl(TimesByte(a, Byte(b, 2)), 16), Shl(TimesByte(a, Byte(b, 3)), 24)))

Expected(op, a, b) ==
    IF op = "execute_mul" THEN Product(a, b)
    ELSE FromHalves(BitsOf(op, Hi(a), Hi(b), 16), BitsOf(op, Lo(a), Lo(b), 16))

(* C19: AND, OR, XOR, AND-NOT, NOT and multiply (the 32-bit wrapping       *)
(* product) return their result, set zero and negative from it, and leave  *)
(* carry, overflow and every other status bit unchanged.                   *)
C19_LogicalFlags ==
    [][last'.op \in LogicalOps =>
        /\ last'.value = Expected(last'.op, r[1], r[2])
        /\ cpsr' = [cpsr EXCEPT !.zero = last'.value = 0,
                                !.signed = last'.value < 0]]_vars

\* 0x80000000 * 0xFFFFFFFF = 0x80000000 started with carry and overflow set:
\* negative is set, carry and overflow stay set
C19_Witness ==
    /\ last.op = "execute_mul"
    /\ r[1] = MinWord /\ r[2] = -1
    /\ last.value = MinWord
    /\ cpsr.signed /\ ~cpsr.zero /\ cpsr.carry /\ cpsr.overflow

-----------------------------------------------------------------------------
\* the software interrupt of the 16-bit instruction set: 1101 1111 nnnnnnnn
IsThumbSwi(instr) == instr \div 256 = 223

\* the call entered the exception: no panic, the 32-bit state, the entry mode
\* of the exception, and the pipeline reloaded at its vector
EnteredBy(exception) ==
    /\ ~panicked'
    /\ last'.entered = exception
    /\ cpsr'.state = "Arm"
    /\ cpsr'.mode = entry_mode(exception)
    /\ r'[PC_INDEX] = vector_addr(exception) + 4

-----------------------------------------------------------------------------
(* C21: in the running state every step runs to completion whatever word   *)
(* is in the current slot: the instruction completes or enters an          *)
(* exception, and the step never panics, in particular for every 16-bit    *)
(* word in the 16-bit state.                                               *)
C21_AsStated ==
    [][StepTaken /\ run_state = "Running" => ~panicked']_vars

-----------------------------------------------------------------------------
\* the operation field of a word of the AluOp format, and its shift amount
AluOpField(instr) == (instr \div 64) % 16

ShiftAmount == r[2] % 256

(* C22: no add, subtract, shift or rotate routine performs an out-of-range *)
(* host operation, for any operands and any shift amount 0..255: here for  *)
(* the 16-bit decoder's register shifts, rotate and negate, which must not *)
(* panic, and whose shifts by 32 or more must yield 0 (logical) or the     *)
(* sign fill (arithmetic).                                                 *)
C22_AsStated ==
    [][last'.op = "execute_thumb" /\ decode_format(last'.instr) = "AluOp" =>
        /\ ~panicked'
        /\ AluOpField(last'.instr) \in {2, 3} /\ ShiftAmount >= 32 => r'[1] = 0
        /\ AluOpField(last'.instr) = 4 /\ ShiftAmount >= 32 =>
                r'[1] = (IF r[1] < 0 THEN -1 ELSE 0)]_vars

-----------------------------------------------------------------------------
\* the byte of the bus at an address (0 where the bus has none), and the u32
\* made of four bytes, the first the lowest
ByteAt(bus, addr) == IF addr >= 0 /\ addr < Len(bus) THEN bus[addr + 1] ELSE 0

LittleEndian(b0, b1, b2, b3) ==
    (IF b3 >= 128 THEN b3 - 256 ELSE b3) * 16777216 + b2 * 65536 + b1 * 256 + b0

\* the addresses read: inside the bus, across its end, and across the end of
\* the address space
ReadAddrs == {0, 5, Len(VectorRom) - 3, Len(VectorRom) - 1, -1, -3}

(* C23: read_hword(a) = byte(a) + 256 * byte(a+1) and read_word(a) =       *)
(* byte(a) + 2^8 byte(a+1) + 2^16 byte(a+2) + 2^24 byte(a+3), the          *)
(* addresses wrapping; write_hword and write_word store the low-order byte *)
(* at the lowest address, so that after write_word(a, v) on a writable bus *)
(* read_word(a) returns v and the bytes outside a..a+3 are unchanged.      *)
C23_LittleEndian ==
    [][last'.op = "write" /\ ~panicked' =>
        /\ \A a \in ReadAddrs :
            /\ read_hword(rom', a) =
                ByteAt(rom', a) + 256 * ByteAt(rom', wrapping_add(a, 1))
            /\ read_word(rom', a) =
                LittleEndian(ByteAt(rom', a), ByteAt(rom', wrapping_add(a, 1)),
                             ByteAt(rom', wrapping_add(a, 2)),
                             ByteAt(rom', wrapping_add(a, 3)))
        /\ Len(rom') = Len(rom)
        /\ \A i \in 0..(Len(rom) - 1) :
            rom'[i + 1] =
                IF i >= last'.addr /\ i < last'.addr + last'.width
                THEN Byte(r[1], i - last'.addr)
                ELSE rom[i + 1]
        /\ last'.width = 4 => read_word(rom', last'.addr) = r[1]
        /\ last'.width = 2 => read_hword(rom', last'.addr) = Lo(r[1])]_vars

\* 0x7FFFFFFF written as a word at the unaligned address 5
C23_Witness ==
    /\ last.op = "write" /\ last.width = 4 /\ last.addr = 5
    /\ ~panicked
    /\ r[1] = -(MinWord + 1)
    /\ rom[6] = 255 /\ rom[9] = 127
    /\ read_word(rom, 5) = r[1]

-----------------------------------------------------------------------------
(* C24: every bus of the repository (the cartridge, the BIOS readable and  *)
(* protected, the byte-slice buses) returns a byte for every 32-bit        *)
(* address, also beyond the end of its data, and never fails.              *)
C24_AsStated ==
    [][last'.op = "read_byte" => ~panicked' /\ last'.value \in 0..255]_vars

-----------------------------------------------------------------------------
\* the format tags
Formats ==
    TodoFormats \cup {"MoveShiftedReg", "AddSub", "MoveCmpAddSubImm", "AluOp",
                      "SoftwareInterrupt", "Undefined"}

(* C25: every 16-bit word gets one format tag, the more specific patterns  *)
(* winning: top byte 1011_0000 is AddSp and 1011_1111 is SoftwareInterrupt *)
(* (never PushPopReg), top five bits 00011 are AddSub (never               *)
(* MoveShiftedReg), so a MoveShiftedReg word never has operation field 3.  *)
C25_Decode ==
    [][last'.op = "decode_format" =>
        /\ last'.format \in Formats
        /\ last'.instr \div 256 = 176 => last'.format = "AddSp"
        /\ last'.instr \div 256 = 191 => last'.format = "SoftwareInterrupt"
        /\ last'.instr \div 2048 = 3 => last'.format = "AddSub"
        /\ last'.format = "MoveShiftedReg" => (last'.instr \div 2048) % 4 /= 3
        /\ last'.format = "PushPopReg" =>
                last'.instr \div 4096 = 11 /\ last'.instr \div 256 \notin {176, 191}]_vars

\* 1011 1111 0000 0001, inside the PushPopReg family, decoded
C25_Witness ==
    /\ last.op = "decode_format"
    /\ last.instr = 191 * 256 + 1
    /\ last.format = "SoftwareInterrupt"

\* the stack pointer and the link register of the mode group b: the active
\* registers when b is the group of the current mode, the group's bank otherwise
SpOf(b) == IF b = BankOf(cpsr.mode) THEN r[SP_INDEX] ELSE banks.sp[b]

LrOf(b) == IF b = BankOf(cpsr.mode) THEN r[LR_INDEX] ELSE banks.lr[b]

(* C26: the switch of mode made by an exception entry (in a step or in a   *)
(* reset) keeps r0..r7, and r8..r12 unless FastInterrupt mode is entered or *)
(* left; the stack pointer of every mode, the one left and the one entered  *)
(* included, is what it was, and so is the link register of every mode but  *)
(* the one entered, whose r14 receives the return address: the values of    *)
(* the mode that was active stay in its bank, whatever is written to r13    *)
(* and r14 afterwards, and are the active ones when the mode is entered     *)
(* again.                                                                   *)
C26_BanksRetained ==
    [][(StepTaken \/ ResetTaken) /\ ~panicked' =>
        /\ last'.entered /= "None" \/ ResetTaken =>
            \A i \in 0..12 :
                (i <= 7 \/ "FastInterrupt" \notin {cpsr.mode, cpsr'.mode})
                    => r'[i] = r[i]
        /\ \A b \in BankIds : SpOf(b)' = SpOf(b)
        /\ \A b \in BankIds \ {BankOf(cpsr'.mode)} : LrOf(b)' = LrOf(b)]_vars

\* after skip_bios set the three stacks, a prefetch abort and then a software
\* interrupt were entered: Supervisor mode is active again with the stack
\* pointer skip_bios gave it, the System stack pointer and the Abort link
\* register are in their banks
C26_Witness ==
    /\ last.op = "step" /\ last.entered = "SoftwareInterrupt"
    /\ cpsr.mode = "Supervisor"
    /\ r[SP_INDEX] = FromHalves(768, 32736)
    /\ banks.sp["usr"] = FromHalves(768, 32512)
    /\ banks.sp["irq"] = FromHalves(768, 32672)
    /\ banks.lr["abt"] /= 0
    /\ r[LR_INDEX] /= banks.lr["abt"]

-----------------------------------------------------------------------------
\* bit k (0..31) of a 32-bit word
BitAt(v, k) == IF k < 16 THEN (Lo(v) \div 2^k) % 2 ELSE (Hi(v) \div 2^(k - 16)) % 2

\* the status register after a shift that set carry to cy and returned result
ShiftStatus(sr, cy, result) ==
    [sr EXCEPT !.carry = cy, !.zero = (result = 0), !.signed = (result < 0)]

(* C27: a left shift of v by n in 1..255 returns v moved up by n bits and   *)
(* cut to 32 bits (bit k of the result is bit k - n of v, and 0 below bit n, *)
(* so 0 for n >= 32), sets carry to bit 32 - n of v for n <= 32 and clears   *)
(* it for n > 32, and recomputes zero and negative from the result.          *)
C27_ShiftLeft ==
    [][last'.op = "execute_lsl" /\ last'.offset >= 1 =>
        LET v == last'.value
            n == last'.offset
        IN  /\ \A k \in 0..31 :
                BitAt(last'.result, k) = IF k >= n THEN BitAt(v, k - n) ELSE 0
            /\ n >= 32 => last'.result = 0
            /\ cpsr' = ShiftStatus(cpsr, n <= 32 /\ BitAt(v, 32 - n) = 1,
                                   last'.result)]_vars

\* 1 shifted left by 32 with carry clear: the result is 0 and carry is set
C27_Witness ==
    /\ last.op = "execute_lsl"
    /\ last.value = 1 /\ last.offset = 32 /\ ~last.carry
    /\ last.result = 0
    /\ cpsr.carry /\ cpsr.zero

(* C28: a logical right shift of v by n, n = 0 counting as 32, returns v    *)
(* moved down by n bits with zeros entering at the top (bit k of the result  *)
(* is bit k + n of v, and 0 from bit 32 - n up, so 0 for n >= 32), sets      *)
(* carry to bit n - 1 of v for n <= 32 and clears it for n > 32.             *)
C28_ShiftRightLogical ==
    [][last'.op = "execute_lsr" =>
        LET v == last'.value
            n == IF last'.offset = 0 THEN 32 ELSE last'.offset
        IN  /\ \A k \in 0..31 :
                BitAt(last'.result, k) = IF k + n <= 31 THEN BitAt(v, k + n) ELSE 0
            /\ n >= 32 => last'.result = 0
            /\ cpsr' = ShiftStatus(cpsr, n <= 32 /\ BitAt(v, n - 1) = 1,
                                   last'.result)]_vars

\* 0xFFFFFFFF shifted right by 33 with carry set: the result is 0 and carry is
\* clear
C28_Witness ==
    /\ last.op = "execute_lsr"
    /\ last.value = -1 /\ last.offset = 33 /\ last.carry
    /\ last.result = 0
    /\ ~cpsr.carry /\ cpsr.zero

(* C29: an arithmetic right shift of v by n, n = 0 counting as 32, returns v *)
(* moved down by n bits with the sign entering at the top; for n >= 32 the   *)
(* result is 0xFFFFFFFF when bit 31 of v is set and 0 otherwise, and carry   *)
(* is bit 31 of v; for n in 1..31 carry is bit n - 1 of v.                   *)
C29_ShiftRightArithmetic ==
    [][last'.op = "execute_asr" =>
        LET v == last'.value
            n == IF last'.offset = 0 THEN 32 ELSE last'.offset
        IN  /\ \A k \in 0..31 :
                BitAt(last'.result, k) =
                    IF k + n <= 31 THEN BitAt(v, k + n) ELSE BitAt(v, 31)
            /\ n >= 32 => last'.result = IF BitAt(v, 31) = 1 THEN -1 ELSE 0
            /\ cpsr' = ShiftStatus(cpsr, BitAt(v, IF n >= 32 THEN 31 ELSE n - 1) = 1,
                                   last'.result)]_vars

\* 0x80000000 shifted right arithmetically by 255 with carry clear: the result
\* is 0xFFFFFFFF and carry is set
C29_Witness ==
    /\ last.op = "execute_asr"
    /\ last.value = MinWord /\ last.offset = 255 /\ ~last.carry
    /\ last.result = -1
    /\ cpsr.carry /\ cpsr.signed

(* C30: a rotation of v by 0 returns v and leaves carry as it was, zero and  *)
(* negative being recomputed; a rotation by n in 1..255 returns v rotated    *)
(* right by n mod 32 bits (bit k of the result is bit (k + n) mod 32 of v)   *)
(* and sets carry to bit 31 of the result, so that for n a multiple of 32    *)
(* the result is v and carry is bit 31 of v.                                 *)
C30_RotateRight ==
    [][last'.op = "execute_ror" =>
        LET v == last'.value
            n == last'.offset
        IN  /\ \A k \in 0..31 : BitAt(last'.result, k) = BitAt(v, (k + n) % 32)
            /\ n % 32 = 0 => last'.result = v
            /\ cpsr' = ShiftStatus(cpsr,
                                   IF n = 0 THEN last'.carry
                                   ELSE BitAt(last'.result, 31) = 1,
                                   last'.result)]_vars

\* 0x80000001 rotated by 64 with carry clear: the result is the operand and
\* carry is set
C30_Witness ==
    /\ last.op = "execute_ror"
    /\ last.value = MinWord + 1 /\ last.offset = 64 /\ ~last.carry
    /\ last.result = MinWord + 1
    /\ cpsr.carry /\ cpsr.signed

\* 0x12345678 rotated by 36: the result is 0x81234567, the operand rotated by 4
C30_WitnessModulo ==
    /\ last.op = "execute_ror"
    /\ last.value = FromHalves(4660, 22136) /\ last.offset = 36
    /\ last.result = FromHalves(33059, 17767)
    /\ cpsr.carry

-----------------------------------------------------------------------------
C31_WitnessArithmetic ==
    /\ last.op = "execute_thumb" /\ last.instr = 16 * 256 + 11
    /\ r[1] = -1 /\ r[3] = -1
    /\ cpsr.signed /\ ~cpsr.carry

-----------------------------------------------------------------------------
(* C32: after the shared subtract with no borrow-in (c = 0) and the flags   *)
(* updated, carry is set exactly when b is not 0 and a >= b as unsigned     *)
(* 32-bit values; subtracting or comparing against 0 clears carry.          *)
C32_SubtractCarry ==
    [][/\ last'.op \in {"execute_sub_impl", "execute_sub_cmp"}
       /\ last'.c = 0 /\ last'.update_cond
       => /\ cpsr'.carry = (r[2] /= 0 /\ ~ULess(r[1], r[2]))
          /\ r[2] = 0 => ~cpsr'.carry]_vars

\* 9 compared against 0: the difference is 9 and carry is clear
C32_Witness ==
    /\ last.op = "execute_sub_cmp" /\ last.update_cond
    /\ r[1] = 9 /\ r[2] = 0
    /\ last.value = 9
    /\ ~cpsr.carry /\ ~cpsr.zero

\* 0xFFFFFFFF - 0x80000000: the first operand is the larger as an unsigned
\* value (and the smaller as a signed one), and carry is set
C32_WitnessUnsigned ==
    /\ last.op = "execute_sub_impl" /\ last.update_cond /\ last.c = 0
    /\ r[1] = -1 /\ r[2] = MinWord
    /\ cpsr.carry

-----------------------------------------------------------------------------
(* C33, as stated: when the previous step entered Reset, DataAbort or       *)
(* FastInterrupt and Interrupt is still pending, the step that follows      *)
(* clears the Interrupt flag without entering it; the same for a            *)
(* FastInterrupt that is still pending after the previous step entered      *)
(* Reset.                                                                   *)
C33_AsStated ==
    [][RunningStep /\ last.op = "step" =>
        /\ last.serviced \in {"Reset", "DataAbort", "FastInterrupt"}
                /\ pending_exceptions[3]
            => ~pending_exceptions'[3] /\ last'.serviced /= "Interrupt"
        /\ last.serviced = "Reset" /\ pending_exceptions[2]
            => ~pending_exceptions'[2] /\ last'.serviced /= "FastInterrupt"]_vars

(* C33, amended: in the step that follows, the interrupt is masked and is   *)
(* not entered; its flag is cleared if the loop reaches it, and stays       *)
(* pending if the step enters another pending exception of higher priority. *)
(* A disable flag that is set is cleared only by a write from outside, and  *)
(* no step enters an interrupt whose disable flag is set.                   *)
C33_DroppedWhenReached ==
    [][/\ RunningStep /\ last.op = "step" =>
            /\ last.serviced \in {"Reset", "DataAbort", "FastInterrupt"}
                    /\ pending_exceptions[3]
                => /\ cpsr.irq_disabled
                   /\ last'.serviced /= "Interrupt"
                   /\ pending_exceptions'[3] = ~Reached(3)
            /\ last.serviced = "Reset" /\ pending_exceptions[2]
                => /\ cpsr.fiq_disabled
                   /\ last'.serviced /= "FastInterrupt"
                   /\ pending_exceptions'[2] = ~Reached(2)
       /\ cpsr.irq_disabled /\ ~cpsr'.irq_disabled => last'.op = "clear_irq_disabled"
       /\ cpsr.fiq_disabled /\ ~cpsr'.fiq_disabled => last'.op = "clear_fiq_disabled"
       /\ StepTaken /\ last'.serviced = "Interrupt" => ~cpsr.irq_disabled
       /\ StepTaken /\ last'.serviced = "FastInterrupt" => ~cpsr.fiq_disabled]_vars

\* reset, DataAbort and Interrupt raised, and two steps: the first entered
\* DataAbort, the second dropped the Interrupt and executed the instruction at
\* the vector
C33_Witness ==
    /\ ops = 5
    /\ last.op = "step" /\ last.executed /\ last.serviced = "None"
    /\ cpsr.mode = "Abort"
    /\ "Interrupt" \in dropped
    /\ ~pending_exceptions[3]

\* Reset, DataAbort and Interrupt raised on the running core, and two steps:
\* the second entered DataAbort and the Interrupt is still pending
C33_WitnessStillPending ==
    /\ last.op = "step" /\ last.serviced = "DataAbort"
    /\ banks.lr["svc"] = 4
    /\ pending_exceptions[3]
    /\ cpsr.irq_disabled

-----------------------------------------------------------------------------
(* C34: decode_format returns Undefined for exactly the 16-bit words whose  *)
(* top five bits are 11101, and one of the other format tags for every      *)
(* other word.                                                              *)
C34_UndefinedFormat ==
    [][last'.op = "decode_format" =>
        /\ last'.format \in Formats
        /\ (last'.format = "Undefined") = (last'.instr \div 2048 = 29)]_vars

\* 0xE800, the lowest word with top bits 11101, is Undefined
C34_Witness ==
    /\ last.op = "decode_format"
    /\ last.instr = 232 * 256
    /\ last.format = "Undefined"

\* 0xE7FF, the word below the range, is an unconditional branch
C34_WitnessBelow ==
    /\ last.op = "decode_format"
    /\ last.instr = 232 * 256 - 1
    /\ last.format = "UncondBranch"

-----------------------------------------------------------------------------
\* the address a read of the protected BIOS uses: the recorded prefetch
\* address with its low two bits cleared, plus the low two bits of addr
ProtectedAddr(addr) == wrapping_add(ClearLow(bios.prefetch_addr, 4), addr % 4)

(* C35, as stated: while the BIOS is protected, read_byte(addr) returns the *)
(* ROM byte at the recorded prefetch address, low two bits cleared, plus    *)
(* addr mod 4; Bios::reset and update_protection(None) leave the BIOS       *)
(* protected, and update_protection(None) keeps the recorded address.       *)
C35_AsStated ==
    [][/\ last'.op = "bios_read_byte" /\ ~bios.readable =>
            /\ ~panicked'
            /\ ProtectedAddr(last'.addr) \in 0..(Len(BiosRom) - 1)
            /\ last'.value = BiosRom[ProtectedAddr(last'.addr) + 1]
       /\ last'.op = "bios_reset" => ~bios'.readable
       /\ last'.op = "update_protection" /\ last'.prefetch_addr = <<>> =>
            ~bios'.readable /\ bios'.prefetch_addr = bios.prefetch_addr]_vars

(* C35 for the recorded addresses inside the ROM: the read returns that     *)
(* byte; for the others it indexes the ROM out of range.                    *)
C35_WithinRom ==
    [][/\ last'.op = "bios_read_byte" /\ ~bios.readable =>
            IF ProtectedAddr(last'.addr) \in 0..(Len(BiosRom) - 1)
            THEN ~panicked' /\ last'.value = BiosRom[ProtectedAddr(last'.addr) + 1]
            ELSE panicked'
       /\ last'.op = "bios_reset" => ~bios'.readable /\ bios'.prefetch_addr = 0
       /\ last'.op = "update_protection" /\ last'.prefetch_addr = <<>> =>
            ~bios'.readable /\ bios'.prefetch_addr = bios.prefetch_addr]_vars

\* update_protection(Some(0x3FFF)), update_protection(None), read_byte(6): the
\* byte at 0x3FFE, in the last word of the ROM
C35_WitnessLastWord ==
    /\ last.op = "bios_read_byte" /\ last.addr = 6
    /\ ~bios.readable /\ bios.prefetch_addr = 64 * 256 - 4
    /\ last.value = BiosRom[64 * 256 - 1]
    /\ ~panicked

\* update_protection(Some(0x4000)), update_protection(None), and a read
C35_WitnessBeyond ==
    /\ last.op = "bios_read_byte"
    /\ ~bios.readable /\ bios.prefetch_addr = 64 * 256
    /\ panicked

-----------------------------------------------------------------------------
(* The video controller's counters and the pixels it writes.               *)

\* the cycles in a frame, and a controller's position in its frame in cycles
FrameCycles == HORIZ_DOTS * VERT_DOTS * CYCLES_PER_DOT

VideoBounds(v) ==
    /\ v.x \in 0..(HORIZ_DOTS - 1)
    /\ v.y \in 0..(VERT_DOTS - 1)
    /\ v.cycle_accum \in 0..(CYCLES_PER_DOT - 1)

CycleOf(v) == (v.y * HORIZ_DOTS + v.x) * CYCLES_PER_DOT + v.cycle_accum

\* the dot under the beam at a cycle of the frame
DotX(t) == ((t % FrameCycles) \div CYCLES_PER_DOT) % HORIZ_DOTS

DotY(t) == ((t % FrameCycles) \div CYCLES_PER_DOT) \div HORIZ_DOTS

\* C36: a call of step(cycles) on a controller reached from a new one leaves
\* the dot counter below 308, the line counter below 228 and the accumulator
\* below 4, does not panic, and writes the frame buffer exactly at the dots it
\* passes with x < 240 and y < 160, each at index y*240 + x below 240*160;
\* the video-memory index of such a dot, in either frame, is below 0x18000.
C36_VideoBounds ==
    [][last'.op = "video_step" =>
        /\ VideoBounds(video) /\ VideoBounds(video')
        /\ ~panicked'
        /\ \E n \in 1..MaxCycles :
            /\ CycleOf(video') = (CycleOf(video) + n) % FrameCycles
            /\ last'.written =
                { DotY(t) * FRAME_WIDTH + DotX(t) :
                    t \in { u \in CycleOf(video)..(CycleOf(video) + n - 1) :
                              DotX(u) < FRAME_WIDTH /\ DotY(u) < FRAME_HEIGHT } }
        /\ \A i \in last'.written :
            /\ i \in 0..(FRAME_WIDTH * FRAME_HEIGHT - 1)
            /\ i + 40960 < 98304]_vars

\* a call that came out of the horizontal blank of line 0 and wrote the first
\* pixel of line 1, index 240
C36_Witness ==
    /\ last.op = "video_step"
    /\ last.written = {FRAME_WIDTH}
    /\ video.x = 0 /\ video.y = 1 /\ video.cycle_accum = 1
    /\ ~panicked

\* a call that wrote the last pixel of the frame, index 38399, and moved the
\* dot into the horizontal blank of line 159
C36_WitnessLastPixel ==
    /\ last.op = "video_step"
    /\ FRAME_WIDTH * FRAME_HEIGHT - 1 \in last.written
    /\ video.x = FRAME_WIDTH /\ video.y = FRAME_HEIGHT - 1
    /\ ~panicked

\* a call in the vertical blank that wrote nothing and wrapped the line
\* counter from 227 to 0
C36_WitnessWrap ==
    /\ last.op = "video_step"
    /\ last.written = {}
    /\ video = [x |-> 0, y |-> 0, cycle_accum |-> 0]

-----------------------------------------------------------------------------
(* The presentation of the frame.                                          *)

\* the cycle of the frame at which the dot counter has just reached 240 on
\* line 159
PresentCycle == ((FRAME_HEIGHT - 1) * HORIZ_DOTS + FRAME_WIDTH) * CYCLES_PER_DOT

\* C37: whatever the split of the cycles into calls, a call of step presents
\* the frame once for each of its cycles that brings the controller to dot 240
\* of line 159, and at no other cycle: once in every 308 * 228 * 4 = 280896
\* cycles.
C37_PresentOncePerFrame ==
    [][last'.op = "video_step" =>
        \E n \in 1..MaxCycles :
            /\ CycleOf(video') = (CycleOf(video) + n) % FrameCycles
            /\ last'.presents =
                Cardinality({ k \in 1..n :
                                (CycleOf(video) + k) % FrameCycles = PresentCycle })]_vars

\* a call whose last cycle brought the dot to 240 on line 159 and presented
\* the frame
C37_Witness ==
    /\ last.op = "video_step"
    /\ last.presents = 1
    /\ video = [x |-> FRAME_WIDTH, y |-> FRAME_HEIGHT - 1, cycle_accum |-> 0]

\* a call that ended at dot 240 of an earlier line and presented nothing
C37_WitnessOtherLine ==
    /\ last.op = "video_step"
    /\ last.presents = 0
    /\ video = [x |-> FRAME_WIDTH, y |-> 0, cycle_accum |-> 0]

====
